---- MODULE Spec2Model ----
(***************************************************************************)
(* A model of the air-quality pipeline of uma1r111/MLOps-AQI-Project:      *)
(* daily ingestion into the historical CSV (fetch_daily_data.py), the      *)
(* quality gate (data_quality_check.py) and incremental feature            *)
(* engineering (run_preprocessing.py).                                     *)
(*                                                                         *)
(* A datetime is the index of its hour since the first day the pipeline    *)
(* knows; a table is the sequence of the rows of its CSV file, a row a     *)
(* function from column names to cell values.                              *)
(***************************************************************************)
EXTENDS Integers, Sequences, FiniteSets, TLC

VARIABLES
    today,        \* datetime.date.today() of the machine, as a day index
    csv_exists,   \* os.path.exists(csv_file)
    csv,          \* rows of karachi_weather_apr1_to_current.csv
    backup,       \* rows of the _backup.csv copy (<<>> while there is none)
    merged_df,    \* the batch fetched by the last ingestion run
    ingest_exit,  \* how the last ingestion run ended: "none", "ok", "raise"
    runs,         \* number of ingestion runs so far
    quality_exit, \* exit status of the last quality check: "none", "0", "1"
    fe_exists,    \* os.path.exists(fe_csv)
    fe_csv,       \* rows of full_preprocessed_aqi_weather_data_with_all_features.csv
    new_df,       \* the rows the last feature-engineering run engineered
    fe_exit,      \* how that run ended: "none", "0", "raise"
    fe_wrote,     \* whether that run wrote the feature CSV
    fs_exists,    \* os.path.exists("feature_selection.csv")
    fs_csv,       \* rows of feature_selection.csv
    fs_exit,      \* how the last feature-selection run ended: "none", "0", "raise"
    model_store,  \* what sarimax_model:latest resolves to in the BentoML store
    predictions,  \* datetimes of predictions.csv (<<>> while there is none)
    train_exit,   \* how the last training run ended: "none", "0", "1", "raise"
    mlflow_runs,  \* number of runs logged to the MLflow experiment
    predictions_mlflow, \* datetimes of predictions_mlflow.csv (<<>> while none)
    metrics,      \* metrics.json (<<>> while there is none): whether it is
                  \* JSON, and the object it holds
    models_results,  \* fit outcome of each candidate in the last training run
    best_model_name, \* the candidate that run selected (0: none)
    train_target, \* datetimes of the rows that run trained the candidates on
    val_target,   \* datetimes of the rows it validated them on
    pc,           \* the stage the scheduled pipeline run has completed
    last,         \* the script that ran last
    service,      \* the serving process: "down", "serving", "failed"
    model,        \* the service's module-level model (<<>> while None)
    request,      \* the request the service handled last
    response,     \* its response
    answers       \* the forecast responses given so far to the requests compared

ingest_state == <<today, csv_exists, csv, backup, merged_df, ingest_exit, runs>>

gate_state == <<quality_exit>>

fe_state == <<fe_exists, fe_csv, new_df, fe_exit, fe_wrote>>

snapshot_state == <<fs_exists, fs_csv, fs_exit>>

\* what the last training run computed
train_run == <<models_results, best_model_name, train_target, val_target>>

\* what the training scripts leave behind
train_files == <<model_store, predictions, mlflow_runs, predictions_mlflow, metrics>>

train_state == <<train_files, train_exit, train_run>>

serve_state == <<service, model, request, response, answers>>

\* everything but the service
pipeline_state ==
    <<ingest_state, gate_state, fe_state, snapshot_state, train_state, pc, last>>

-----------------------------------------------------------------------------
(* Bounds of the model. *)

\* days the machine's clock runs through
MaxDay == 2
\* ingestion runs in one behaviour
MaxRuns == 3

\* runs of the ingestion script when the later stages run as well
MaxBatches == 2
\* hours of a day whose values a later fetch of the same day may revise
RevisedHours == 1
\* rows of the smaller crafted table the quality gate is tried on
GateRows == 5
\* rows of a crafted table one fault may touch
FaultRows == 2

-----------------------------------------------------------------------------
(* Cells. *)

\* a missing cell (float NaN, or NaT in the datetime column)
NaN == 0 - 999999

IsNull(v) == v = NaN

\* the API answers a one-day request with one entry per hour of that day
HoursPerDay == 24

pollutant_columns == <<"pm10", "pm2_5", "co", "no2", "so2", "o3", "aqi_us">>

weather_columns == <<"temp_C", "humidity_%", "windspeed_kph", "precip_mm">>

column_order ==
    <<"datetime", "temp_C", "humidity_%", "windspeed_kph", "precip_mm",
      "pm10", "pm2_5", "co", "no2", "so2", "o3", "aqi_us">>

Range(s) == {s[i] : i \in 1..Len(s)}

-----------------------------------------------------------------------------
(* Generic dataframe operations (pandas), as the scripts use them. *)

Column(df, col) == [i \in 1..Len(df) |-> df[i][col]]

Datetimes(df) == {df[i]["datetime"] : i \in 1..Len(df)}

RECURSIVE SortedKeys(_)
\* the elements of a finite set of integers, ascending
SortedKeys(S) ==
    IF S = {} THEN <<>>
    ELSE LET m == CHOOSE x \in S : \A y \in S : x <= y
         IN  <<m>> \o SortedKeys(S \ {m})

RowsAt(df, d) == SelectSeq(df, LAMBDA r : r["datetime"] = d)

RECURSIVE ConcatGroups(_, _, _)
ConcatGroups(df, keys, flipped) ==
    IF keys = <<>> THEN <<>>
    ELSE LET g == RowsAt(df, Head(keys))
             h == IF Head(keys) \in flipped
                  THEN [i \in 1..Len(g) |-> g[Len(g) + 1 - i]]
                  ELSE g
         IN  h \o ConcatGroups(df, Tail(keys), flipped)

\* df.sort_values("datetime") with a stable algorithm: rows of equal datetime
\* keep their order
StableSort(df) == ConcatGroups(df, SortedKeys(Datetimes(df)), {})

\* the datetimes that several rows of df carry, not all of them equal rows
TiedKeys(df) ==
    {d \in Datetimes(df) :
        LET g == RowsAt(df, d) IN \E i \in 2..Len(g) : g[i] # g[1]}

\* the datetimes of df ascend strictly
IsSortedUnique(df) ==
    \A i \in 1..(Len(df) - 1) : df[i]["datetime"] < df[i + 1]["datetime"]

\* df.sort_values("datetime") as the scripts call it: kind="quicksort", which
\* is not stable, so rows of equal datetime come out in either order (a table
\* that is sorted already, without ties, comes out as it is)
SortValuesOutcomes(df) ==
    IF IsSortedUnique(df) THEN {df}
    ELSE {ConcatGroups(df, SortedKeys(Datetimes(df)), F) : F \in SUBSET TiedKeys(df)}

\* a drop_duplicates that drops nothing
DropDuplicatesNone(df) == df

\* df.drop_duplicates(subset="datetime", keep="last")
DropDuplicatesLast(df) ==
    LET keep == {i \in 1..Len(df) :
                    \A j \in (i + 1)..Len(df) : df[j]["datetime"] # df[i]["datetime"]}
        idx  == SortedKeys(keep)
    IN  [k \in 1..Len(idx) |-> df[idx[k]]]

\* the columns of a frame
Columns(df) == IF df = <<>> THEN {} ELSE DOMAIN df[1]

\* pd.concat([a, b]): the rows of a, then those of b, over the union of
\* their columns, NaN where a frame has no such column
PdConcat(a, b) ==
    IF a = <<>> \/ b = <<>> \/ Columns(a) = Columns(b) THEN a \o b
    ELSE [i \in 1..(Len(a) + Len(b)) |->
            LET r == (a \o b)[i]
            IN  [c \in Columns(a) \cup Columns(b) |->
                    IF c \in DOMAIN r THEN r[c] ELSE NaN]]

\* existing_df.dropna(subset=["datetime"])
DropNaDatetime(df) == SelectSeq(df, LAMBDA r : ~IsNull(r["datetime"]))

-----------------------------------------------------------------------------
(* Ingestion: fetch_daily_data.py. *)

HourOfDay(d) == d % HoursPerDay

\* a right-skewed hourly series: three peaks a day
Spike(d) == IF HourOfDay(d) % 8 = 7 THEN 1 ELSE 0

\* rev 0 is the API's first answer for an hour, rev 1 a later, revised answer
Revisions == {0, 1}

Revised(d, rev) == rev = 1 /\ HourOfDay(d) < RevisedHours

\* the value the API reports for column col at hour d in revision rev
ApiValue(col, d, rev) ==
    CASE col = "temp_C"     -> IF Revised(d, rev) THEN 4 ELSE 5 + (HourOfDay(d) % 2)
      [] col = "humidity_%" -> HourOfDay(d) % 2
      [] col = "o3"         -> 1 + (HourOfDay(d) % 2)
      [] col = "aqi_us"     -> IF Revised(d, rev) THEN d + 100 ELSE d
      [] OTHER              -> Spike(d)

HoursOf(day) == [h \in 1..HoursPerDay |-> day * HoursPerDay + (h - 1)]

\* one API answer as a dataframe: the "time" array parsed into "datetime",
\* the value arrays under the names the CSV uses
ApiFrame(cols, day, rev) ==
    [h \in 1..HoursPerDay |->
        [c \in {"datetime"} \cup Range(cols) |->
            IF c = "datetime" THEN HoursOf(day)[h] ELSE ApiValue(c, HoursOf(day)[h], rev)]]

pollutant_df(day, rev) == ApiFrame(pollutant_columns, day, rev)

weather_df(day, rev) == ApiFrame(weather_columns, day, rev)

\* pd.merge(left, right, on="datetime", how="outer"), for frames whose
\* datetimes are unique (the API's time array is an hourly range): one row
\* per datetime of either frame, ascending, NaN where a frame has no row
MergeOuter(left, right, lcols, rcols) ==
    LET keys == SortedKeys(Datetimes(left) \cup Datetimes(right))
        Cell(df, d, c) == IF d \in Datetimes(df) THEN RowsAt(df, d)[1][c] ELSE NaN
    IN  [k \in 1..Len(keys) |->
            [c \in {"datetime"} \cup Range(lcols) \cup Range(rcols) |->
                IF c = "datetime" THEN keys[k]
                ELSE IF c \in Range(lcols) THEN Cell(left, keys[k], c)
                ELSE Cell(right, keys[k], c)]]

Fetch(day, rev) ==
    MergeOuter(pollutant_df(day, rev), weather_df(day, rev),
               pollutant_columns, weather_columns)

\* combined_df[column_order]
Reorder(df) == [i \in 1..Len(df) |-> [c \in Range(column_order) |-> df[i][c]]]

\* a merge that forgets the existing rows
CombineFetchedOnly(existing_df, fetched) ==
    {DropDuplicatesLast(s) : s \in SortValuesOutcomes(fetched)}

\* line 120-124: concat, sort, keep the last row of every datetime
Combine(existing_df, fetched) ==
    {DropDuplicatesLast(s) : s \in SortValuesOutcomes(existing_df \o fetched)}

\* line 149-153: the final sort and write
FinalWrite(combined_df) ==
    {Reorder(s) : s \in SortValuesOutcomes(combined_df)}

\* one run of the script. http_ok = FALSE is raise_for_status() failing.
Ingest(rev, http_ok) ==
    /\ runs < MaxRuns
    /\ runs' = runs + 1
    /\ UNCHANGED today
    /\ IF ~http_ok
       THEN /\ ingest_exit' = "raise"
            /\ UNCHANGED <<csv_exists, csv, backup, merged_df>>
       ELSE /\ merged_df' = Fetch(today - 1, rev)
            /\ IF csv_exists
               THEN LET existing_df == DropNaDatetime(csv)
                    IN  /\ backup' = csv
                        /\ UNCHANGED csv_exists
                        /\ \E combined_df \in Combine(existing_df, merged_df') :
                              IF Len(combined_df) < Len(existing_df)
                              THEN /\ ingest_exit' = "raise"
                                   /\ UNCHANGED csv
                              ELSE /\ ingest_exit' = "ok"
                                   /\ csv' \in FinalWrite(combined_df)
               ELSE /\ csv_exists' = TRUE
                    /\ csv' \in FinalWrite(merged_df')
                    /\ ingest_exit' = "ok"
                    /\ UNCHANGED backup

\* midnight passes on the machine
Midnight ==
    /\ today < MaxDay
    /\ today' = today + 1
    /\ UNCHANGED <<csv_exists, csv, backup, merged_df, ingest_exit, runs>>

InitIngest ==
    /\ today = 1
    /\ csv_exists = FALSE
    /\ csv = <<>>
    /\ backup = <<>>
    /\ merged_df = <<>>
    /\ ingest_exit = "none"
    /\ runs = 0

-----------------------------------------------------------------------------
(* Exact integer arithmetic for the statistics of the quality gate.  A        *)
(* natural number is the sequence of its base-10000 digits, lowest first,    *)
(* without leading zeros; an integer is a sign and such a magnitude.         *)

RECURSIVE MagOf(_)
MagOf(n) == IF n = 0 THEN <<>> ELSE <<n % 10000>> \o MagOf(n \div 10000)

RECURSIVE MagAdd(_, _, _)
MagAdd(a, b, carry) ==
    IF a = <<>> /\ b = <<>> THEN MagOf(carry)
    ELSE LET x == IF a = <<>> THEN 0 ELSE Head(a)
             y == IF b = <<>> THEN 0 ELSE Head(b)
             t == x + y + carry
         IN  <<t % 10000>> \o MagAdd(IF a = <<>> THEN a ELSE Tail(a),
                                     IF b = <<>> THEN b ELSE Tail(b),
                                     t \div 10000)

RECURSIVE MagTrim(_)
MagTrim(a) ==
    IF a # <<>> /\ a[Len(a)] = 0 THEN MagTrim(SubSeq(a, 1, Len(a) - 1)) ELSE a

RECURSIVE MagLessFrom(_, _, _)
\* a < b for magnitudes of equal length, compared from digit i downwards
MagLessFrom(a, b, i) ==
    IF i = 0 THEN FALSE
    ELSE IF a[i] # b[i] THEN a[i] < b[i]
    ELSE MagLessFrom(a, b, i - 1)

MagLess(a, b) ==
    IF Len(a) # Len(b) THEN Len(a) < Len(b) ELSE MagLessFrom(a, b, Len(a))

RECURSIVE MagSubRaw(_, _, _)
\* a - b - borrow, for a >= b
MagSubRaw(a, b, borrow) ==
    IF a = <<>> THEN <<>>
    ELSE LET y == IF b = <<>> THEN 0 ELSE Head(b)
             t == Head(a) - y - borrow
         IN  <<IF t < 0 THEN t + 10000 ELSE t>>
                 \o MagSubRaw(Tail(a), IF b = <<>> THEN b ELSE Tail(b),
                              IF t < 0 THEN 1 ELSE 0)

MagSub(a, b) == MagTrim(MagSubRaw(a, b, 0))

RECURSIVE MagMulDigit(_, _, _)
MagMulDigit(a, d, carry) ==
    IF a = <<>> THEN MagOf(carry)
    ELSE LET t == Head(a) * d + carry
         IN  <<t % 10000>> \o MagMulDigit(Tail(a), d, t \div 10000)

RECURSIVE MagMul(_, _)
MagMul(a, b) ==
    IF a = <<>> \/ b = <<>> THEN <<>>
    ELSE LET rest == MagMul(a, Tail(b))
         IN  MagTrim(MagAdd(MagMulDigit(a, Head(b), 0),
                            IF rest = <<>> THEN rest ELSE <<0>> \o rest, 0))

BigOf(i) == [neg |-> i < 0, mag |-> MagOf(IF i < 0 THEN 0 - i ELSE i)]

BigNeg(x) == [neg |-> (~x.neg) /\ x.mag # <<>>, mag |-> x.mag]

BigAdd(x, y) ==
    IF x.neg = y.neg THEN [neg |-> x.neg, mag |-> MagAdd(x.mag, y.mag, 0)]
    ELSE IF MagLess(x.mag, y.mag) THEN [neg |-> y.neg, mag |-> MagSub(y.mag, x.mag)]
    ELSE LET m == MagSub(x.mag, y.mag) IN [neg |-> x.neg /\ m # <<>>, mag |-> m]

BigMul(x, y) ==
    LET m == MagMul(x.mag, y.mag) IN [neg |-> (x.neg # y.neg) /\ m # <<>>, mag |-> m]

BigLess(x, y) ==
    IF x.neg # y.neg THEN x.neg
    ELSE IF x.neg THEN MagLess(y.mag, x.mag)
    ELSE MagLess(x.mag, y.mag)

BigPositive(x) == (~x.neg) /\ x.mag # <<>>

RECURSIVE BigSum(_)
BigSum(xs) ==
    IF xs = <<>> THEN BigOf(0)
    ELSE IF Len(xs) = 1 THEN xs[1]
    ELSE LET h == Len(xs) \div 2
         IN  BigAdd(BigSum(SubSeq(xs, 1, h)), BigSum(SubSeq(xs, h + 1, Len(xs))))

-----------------------------------------------------------------------------
(* The quality gate: data_quality_check.py. *)

max_windspeed == 150

features_to_check ==
    {"temp_C", "humidity_%", "windspeed_kph", "precip_mm", "pm10", "pm2_5",
     "co", "no2", "so2", "o3"}

expected_log_threshold == 1

expected_log_features ==
    {"co", "pm2_5", "pm10", "precip_mm", "so2", "no2", "windspeed_kph"}

\* df.select_dtypes(include=[np.number]).columns
numerical_cols == Range(column_order) \ {"datetime"}

\* expected_ranges: column -> <<min_val, max_val>>
expected_ranges ==
    [c \in numerical_cols |->
        CASE c = "temp_C"        -> <<5, 45>>
          [] c = "humidity_%"    -> <<0, 100>>
          [] c = "windspeed_kph" -> <<0, 150>>
          [] c = "precip_mm"     -> <<0, 10>>
          [] c = "pm10"          -> <<0, 500>>
          [] c = "pm2_5"         -> <<0, 150>>
          [] c = "co"            -> <<0, 2000>>
          [] c = "no2"           -> <<0, 100>>
          [] c = "so2"           -> <<0, 100>>
          [] c = "o3"            -> <<0, 300>>
          [] c = "aqi_us"        -> <<0, 500>>]


\* the cells of a column that are not NaN, in row order
NonNull(df, col) == SelectSeq(Column(df, col), LAMBDA v : ~IsNull(v))

\* line 17-19: df['windspeed_kph'].clip(upper=max_windspeed)
CapWindspeed(df) ==
    [i \in 1..Len(df) |->
        [df[i] EXCEPT !["windspeed_kph"] =
            IF ~IsNull(@) /\ @ > max_windspeed THEN max_windspeed ELSE @]]

\* line 28: df.isnull().sum()
missing_counts(df) ==
    [c \in Range(column_order) |-> Cardinality({i \in 1..Len(df) : IsNull(df[i][c])})]

MaxOf(S) == CHOOSE x \in S : \A y \in S : y <= x

\* line 125: missing_percent.max() > 10, with missing_percent = counts / len * 100
HighMissing(df) ==
    LET counts == missing_counts(df)
    IN  Len(df) > 0 /\
            MaxOf({counts[c] : c \in Range(column_order)}) * 100 > 10 * Len(df)

\* Series.skew() > threshold for a threshold >= 0.  pandas computes
\*   skew = count * sqrt(count - 1) / (count - 2) * m3 / m2 ** 1.5
\* over the non-NaN cells, with m2, m3 the sums of squared and cubed deviations
\* from the mean, NaN below three cells and 0 when m2 = 0.  With s1, s2, s3
\* the power sums, n * m2 = n*s2 - s1^2 and n^2 * m3 = n^2*s3 - 3*n*s1*s2 + 2*s1^3,
\* so skew > t iff m3 > 0 and n*(n-1)*(n^2 m3)^2 > t^2 * (n-2)^2 * (n m2)^3.
SkewAbove(xs, t) ==
    LET n  == BigOf(Len(xs))
        vs == SortedKeys(Range(xs))
        \* the number of cells that hold vs[j]
        c  == [j \in 1..Len(vs) |->
                  BigOf(Cardinality({i \in 1..Len(xs) : xs[i] = vs[j]}))]
        s1 == BigSum([j \in 1..Len(vs) |-> BigMul(c[j], BigOf(vs[j]))])
        s2 == BigSum([j \in 1..Len(vs) |-> BigMul(c[j], BigOf(vs[j] * vs[j]))])
        s3 == BigSum([j \in 1..Len(vs) |->
                         BigMul(c[j], BigMul(BigOf(vs[j] * vs[j]), BigOf(vs[j])))])
        b2 == BigAdd(BigMul(n, s2), BigNeg(BigMul(s1, s1)))
        b3 == BigAdd(BigMul(BigMul(n, n), s3),
                     BigAdd(BigNeg(BigMul(BigMul(BigOf(3), n), BigMul(s1, s2))),
                            BigMul(BigOf(2), BigMul(s1, BigMul(s1, s1)))))
    IN  /\ Len(xs) >= 3
        /\ BigPositive(b2)
        /\ BigPositive(b3)
        /\ BigLess(BigMul(BigOf(t * t * (Len(xs) - 2) * (Len(xs) - 2)),
                          BigMul(b2, BigMul(b2, b2))),
                   BigMul(BigOf(Len(xs) * (Len(xs) - 1)), BigMul(b3, b3)))

\* line 46-55: the checked columns whose skewness exceeds the threshold
log_candidates(df) ==
    {col \in numerical_cols :
        col \in features_to_check /\ SkewAbove(NonNull(df, col), expected_log_threshold)}

\* line 77: ((df[col] < min_val) | (df[col] > max_val)).sum()
out_of_range(df) ==
    [col \in DOMAIN expected_ranges |->
        Cardinality({i \in 1..Len(df) :
            /\ ~IsNull(df[i][col])
            /\ \/ df[i][col] < expected_ranges[col][1]
               \/ df[i][col] > expected_ranges[col][2]})]

\* a sequence of integers in ascending order (itself, when it ascends already)
SortInts(xs) ==
    IF \A i \in 1..(Len(xs) - 1) : xs[i] <= xs[i + 1] THEN xs
    ELSE SortSeq(xs, LAMBDA a, b : a < b)

\* four times Series.quantile(k / 4) of the sorted cells xs (linear
\* interpolation between the two nearest ranks)
Quantile4(xs, k) ==
    LET pos == k * (Len(xs) - 1)
        f   == pos \div 4
        r   == pos % 4
    IN  IF r = 0 THEN 4 * xs[f + 1]
        ELSE 4 * xs[f + 1] + r * (xs[f + 2] - xs[f + 1])

\* line 87-92: the number of cells outside [q1 - 1.5 * iqr, q3 + 1.5 * iqr]
Outliers(df, col) ==
    LET xs  == SortInts(NonNull(df, col))
        q1  == Quantile4(xs, 1)
        q3  == Quantile4(xs, 3)
        iqr == q3 - q1
    IN  IF xs = <<>> THEN 0
        ELSE Cardinality({i \in 1..Len(xs) :
                \/ 8 * xs[i] < 2 * q1 - 3 * iqr
                \/ 8 * xs[i] > 2 * q3 + 3 * iqr})

\* line 95, 127: outliers > len(df) * 0.15
HighOutliers(df) ==
    \E col \in numerical_cols : Outliers(df, col) * 100 > Len(df) * 15

\* line 100-102: not time_diff.eq(timedelta(hours=1)).all(), on the sorted frame
DatetimeGaps(df) ==
    LET sorted == SortInts(Column(df, "datetime"))
    IN  ~(\A i \in 1..(Len(sorted) - 1) : sorted[i + 1] - sorted[i] = 1)

\* line 110: df.duplicated(subset='datetime', keep='first').sum()
duplicates(df) ==
    Cardinality({i \in 1..Len(df) :
        \E j \in 1..(i - 1) : df[j]["datetime"] = df[i]["datetime"]})

SymmetricDifference(A, B) == (A \ B) \cup (B \ A)

\* a gate that forgets the missing-value term
quality_issues_no_missing(raw) ==
    LET df == CapWindspeed(raw)
    IN  \/ \E col \in DOMAIN expected_ranges : out_of_range(df)[col] > 0
        \/ HighOutliers(df)
        \/ DatetimeGaps(df)
        \/ duplicates(df) > 0
        \/ SymmetricDifference(log_candidates(df), expected_log_features) # {}

\* a gate that forgets the log-candidate term
quality_issues_no_log(raw) ==
    LET df == CapWindspeed(raw)
    IN  \/ HighMissing(df)
        \/ \E col \in DOMAIN expected_ranges : out_of_range(df)[col] > 0
        \/ HighOutliers(df)
        \/ DatetimeGaps(df)
        \/ duplicates(df) > 0

\* a gate whose range check also rejects the bounds themselves
quality_issues_strict_range(raw) ==
    LET df == CapWindspeed(raw)
    IN  \/ HighMissing(df)
        \/ \E col \in DOMAIN expected_ranges, i \in 1..Len(df) :
              /\ ~IsNull(df[i][col])
              /\ \/ df[i][col] <= expected_ranges[col][1]
                 \/ df[i][col] >= expected_ranges[col][2]
        \/ HighOutliers(df)
        \/ DatetimeGaps(df)
        \/ duplicates(df) > 0
        \/ SymmetricDifference(log_candidates(df), expected_log_features) # {}

\* line 124-131: quality_issues, for the CSV as read
quality_issues(raw) ==
    LET df == CapWindspeed(raw)
    IN  \/ HighMissing(df)
        \/ \E col \in DOMAIN expected_ranges : out_of_range(df)[col] > 0
        \/ HighOutliers(df)
        \/ DatetimeGaps(df)
        \/ duplicates(df) > 0
        \/ SymmetricDifference(log_candidates(df), expected_log_features) # {}

\* a gate that passes every table
QualityExitAlwaysPass(df) == "0"

\* line 132-138: exit(1) on quality issues
QualityExit(df) == IF quality_issues(df) THEN "1" ELSE "0"

\* one run of the script; without the CSV, read_csv raises and the
\* interpreter exits with status 1
QualityCheck ==
    /\ quality_exit' = IF csv_exists THEN QualityExit(csv) ELSE "1"
    /\ UNCHANGED ingest_state

InitGate == quality_exit = "none"

-----------------------------------------------------------------------------
(* Feature engineering: run_preprocessing.py.  Real-valued results (log1p,  *)
(* standardisation, products, sine and cosine) are kept as terms over the   *)
(* cells they are computed from.                                            *)

\* tz_convert("Asia/Karachi"): local time is UTC+5
UtcOffsetHours == 5

skewed_cols == <<"co", "pm2_5", "pm10", "precip_mm", "so2", "no2">>

scale_cols ==
    <<"temp_C", "humidity_%", "windspeed_kph", "log_pm2_5", "log_pm10",
      "log_precip_mm", "log_co", "log_no2", "log_so2", "o3">>

lag_offsets == {1, 12, 24}

LagName(k) ==
    CASE k = 1  -> "aqi_us_lag1"
      [] k = 12 -> "aqi_us_lag12"
      [] k = 24 -> "aqi_us_lag24"

lag_columns == {LagName(k) : k \in lag_offsets}

\* np.log1p(x)
Log1p(x) == [log1p |-> x]

\* the values a scaler was fit on, each with the number of rows holding it
FitOf(column) ==
    {<<v, Cardinality({i \in 1..Len(column) : column[i] = v})>> : v \in Range(column)}

\* StandardScaler().fit_transform: x standardised by the mean and standard
\* deviation of the values the scaler was fit on
Standardize(x, fit) == [x |-> x, fit |-> fit]

Product(a, b) == [product |-> <<a, b>>]

\* a row extended by further columns
Extend(row, more) ==
    [c \in DOMAIN row \cup DOMAIN more |-> IF c \in DOMAIN more THEN more[c] ELSE row[c]]

\* a filter that takes every raw row as new
NewRowsAll(raw_df, prev_df) == raw_df

\* line 25: raw_df[~raw_df['datetime'].isin(prev_df['datetime'])]
NewRows(raw_df, prev_df) ==
    LET seen == Datetimes(prev_df)
    IN  SelectSeq(raw_df, LAMBDA r : r["datetime"] \notin seen)

\* line 31-33
WithLogs(df) ==
    [i \in 1..Len(df) |->
        Extend(df[i], [c \in {"log_" \o col : col \in Range(skewed_cols)} |->
                          Log1p(df[i][SubSeq(c, 5, Len(c))])])]

\* line 36-46: the scaler is fit on this batch alone
WithScaled(df) ==
    LET fit == [col \in Range(scale_cols) |-> FitOf(Column(df, col))]
    IN  [i \in 1..Len(df) |->
            Extend(df[i], [c \in {"scaled_" \o col : col \in Range(scale_cols)} |->
                              LET col == SubSeq(c, 8, Len(c))
                              IN  Standardize(df[i][col], fit[col])])]

\* df[['datetime', 'aqi_us']]
TargetSeries(df) ==
    [i \in 1..Len(df) |-> [c \in {"datetime", "aqi_us"} |-> df[i][c]]]

\* Series.shift(k)
Shift(column, k) == [i \in 1..Len(column) |-> IF i > k THEN column[i - k] ELSE NaN]

\* line 52-54: the lag columns of a sorted target series
LagFrame(sorted) ==
    [i \in 1..Len(sorted) |->
        Extend(sorted[i], [c \in lag_columns |->
            LET k == CHOOSE o \in lag_offsets : LagName(o) = c
            IN  Shift(Column(sorted, "aqi_us"), k)[i]])]

\* lags shifted within the new batch alone
LagFramesOfBatch(prev_df, batch) ==
    {LagFrame(s) : s \in SortValuesOutcomes(TargetSeries(batch))}

\* line 49-55: lags over the previous and the new rows together
LagFrames(prev_df, batch) ==
    {LagFrame(s) : s \in SortValuesOutcomes(TargetSeries(prev_df) \o TargetSeries(batch))}

RECURSIVE MergeLeft(_, _)
\* line 58: new_df.merge(lags, on='datetime', how='left')
MergeLeft(df, lags) ==
    IF df = <<>> THEN <<>>
    ELSE LET matches == RowsAt(lags, Head(df)["datetime"])
             lagsOf(m) == [c \in lag_columns |-> m[c]]
         IN  (IF matches = <<>>
              THEN <<Extend(Head(df), [c \in lag_columns |-> NaN])>>
              ELSE [j \in 1..Len(matches) |-> Extend(Head(df), lagsOf(matches[j]))])
             \o MergeLeft(Tail(df), lags)

LocalHours(d) == d + UtcOffsetHours

\* line 61-66, with day 0 of the model a Monday
WithCalendar(df) ==
    [i \in 1..Len(df) |->
        LET hour == LocalHours(df[i]["datetime"]) % 24
            dow  == (LocalHours(df[i]["datetime"]) \div 24) % 7
        IN  Extend(df[i],
                [hour |-> hour, day_of_week |-> dow,
                 is_weekend |-> IF dow \in {5, 6} THEN 1 ELSE 0,
                 hour_sin |-> [sin |-> hour], hour_cos |-> [cos |-> hour]])]

\* line 69-71
WithInteractions(df) ==
    [i \in 1..Len(df) |->
        Extend(df[i],
            [log_pm2_5_scaled_windspeed_kph |->
                 Product(df[i]["log_pm2_5"], df[i]["scaled_windspeed_kph"]),
             scaled_temp_C_scaled_o3 |->
                 Product(df[i]["scaled_temp_C"], df[i]["scaled_o3"]),
             scaled_temp_C_scaled_windspeed_kph |->
                 Product(df[i]["scaled_temp_C"], df[i]["scaled_windspeed_kph"])])]

\* line 30-71: the new rows with all their feature columns
Engineer(prev_df, batch) ==
    LET scaled == WithScaled(WithLogs(batch))
    IN  {WithInteractions(WithCalendar(MergeLeft(scaled, lags))) :
            lags \in LagFrames(prev_df, batch)}

\* a write that leaves the new rows in front and does not sort
FinalFeaturesUnsorted(prev_df, engineered) == {engineered \o prev_df}

\* a final write that forgets the previous feature table
FinalFeaturesNewOnly(prev_df, engineered) == SortValuesOutcomes(engineered)

\* line 74-76: concat, keep the last row of every datetime, sort
FinalFeatures(prev_df, engineered) ==
    SortValuesOutcomes(DropDuplicatesLast(PdConcat(prev_df, engineered)))

\* one run of the script
Preprocess ==
    IF ~csv_exists
    THEN /\ fe_exit' = "raise"
         /\ fe_wrote' = FALSE
         /\ UNCHANGED <<fe_exists, fe_csv, new_df>>
    ELSE \E raw_df \in SortValuesOutcomes(csv) :
            \E prev_df \in (IF fe_exists THEN SortValuesOutcomes(fe_csv) ELSE {<<>>}) :
                LET batch == NewRows(raw_df, prev_df)
                IN  IF batch = <<>>
                    THEN /\ fe_exit' = "0"
                         /\ fe_wrote' = FALSE
                         /\ new_df' = <<>>
                         /\ UNCHANGED <<fe_exists, fe_csv>>
                    ELSE \E engineered \in Engineer(prev_df, batch) :
                            /\ new_df' = engineered
                            /\ fe_csv' \in FinalFeatures(prev_df, engineered)
                            /\ fe_exists' = TRUE
                            /\ fe_wrote' = TRUE
                            /\ fe_exit' = "0"

InitFe ==
    /\ fe_exists = FALSE
    /\ fe_csv = <<>>
    /\ new_df = <<>>
    /\ fe_exit = "none"
    /\ fe_wrote = FALSE

-----------------------------------------------------------------------------
(* Feature selection: feature_selection.py appends the selected columns of  *)
(* the feature rows newer than the snapshot's last datetime.                *)

selected_features ==
    <<"datetime", "aqi_us_lag1", "aqi_us_lag12", "aqi_us_lag24", "pm2_5",
      "log_pm10", "scaled_humidity_%", "scaled_temp_C_scaled_log_windspeed_kph",
      "log_so2", "day_of_week", "scaled_temp_C", "scaled_temp_C_scaled_o3",
      "log_no2", "aqi_us">>

\* a filter that takes every feature row as new
NewDataAll(full_df, feature_df) == full_df

\* a filter that takes every row the snapshot does not hold as new
NewDataAbsent(full_df, feature_df) ==
    LET held == Datetimes(feature_df)
    IN  SelectSeq(full_df, LAMBDA r : r["datetime"] \notin held)

\* a filter that takes the row at the snapshot's last datetime as new, too
NewDataFromLast(full_df, feature_df) ==
    LET last_datetime == MaxOf(Datetimes(feature_df))
    IN  SelectSeq(full_df, LAMBDA r : r["datetime"] >= last_datetime)

\* line 19: full_df[full_df['datetime'] > last_datetime]
NewData(full_df, feature_df) ==
    LET last_datetime == MaxOf(Datetimes(feature_df))
    IN  SelectSeq(full_df, LAMBDA r : r["datetime"] > last_datetime)

\* new_data[selected_features]
SelectFeatures(df) ==
    [i \in 1..Len(df) |-> [c \in Range(selected_features) |-> df[i][c]]]

\* one run of the script
FeatureSelection ==
    IF ~fe_exists \/ ~fs_exists
    THEN /\ fs_exit' = "raise"
         /\ UNCHANGED <<fs_exists, fs_csv>>
    ELSE LET new_data == NewData(fe_csv, fs_csv)
         IN  IF new_data = <<>>
             THEN /\ fs_exit' = "0"
                  /\ UNCHANGED <<fs_exists, fs_csv>>
             ELSE IF \E c \in Range(selected_features) : c \notin DOMAIN new_data[1]
             THEN /\ fs_exit' = "raise"
                  /\ UNCHANGED <<fs_exists, fs_csv>>
             ELSE /\ fs_csv' = DropDuplicatesLast(PdConcat(fs_csv, SelectFeatures(new_data)))
                  /\ fs_exit' = "0"
                  /\ UNCHANGED fs_exists

\* feature_selection.csv is never created by the scripts: it is there before
\* the first run, holding SeedDays days of history up to the end of day 0, or
\* it is missing
SeedDays == 3

SeedRow(d) ==
    [c \in Range(selected_features) |->
        IF c = "datetime" THEN d
        ELSE IF c = "aqi_us" THEN ApiValue("aqi_us", d + SeedDays * HoursPerDay, 0)
        ELSE IF c \in {"log_pm10", "log_so2", "log_no2", "scaled_humidity_%",
                        "scaled_temp_C", "scaled_temp_C_scaled_o3"}
        THEN [seed |-> c]
        ELSE 0]

SeedSnapshot ==
    [i \in 1..(SeedDays * HoursPerDay) |-> SeedRow(i - 1 - (SeedDays - 1) * HoursPerDay)]

\* a snapshot that ends at noon of day 0
EarlySeedSnapshot == SubSeq(SeedSnapshot, 1, Len(SeedSnapshot) - HoursPerDay \div 2)

\* a feature table written before run_preprocessing.py had its present
\* form: the rows of the day before day 0, with the column of the snapshot's
\* projection that the script does not compute
LegacyFeatures ==
    LET engineered == CHOOSE e \in Engineer(<<>>, Fetch(0 - 1, 0)) : TRUE
    IN  [i \in 1..Len(engineered) |->
            Extend(engineered[i], [c \in Range(selected_features) \ Columns(engineered) |-> 1])]

InitSnapshot(seeded) ==
    /\ fs_exists = seeded
    /\ fs_csv = IF seeded THEN SeedSnapshot ELSE <<>>
    /\ fs_exit = "none"

-----------------------------------------------------------------------------
(* Training and forecasting: predict_next_3days.py and its variant          *)
(* predict_next_3_days_mlflow.py.  The fits of the statistical model are     *)
(* inputs: a candidate's fit and validation raises, or yields a validation   *)
(* RMSE from an optimisation that converged within maxiter or did not.       *)

PREDICT_HORIZON == 72

WindowDays == 90

best_params1 ==
    [p |-> 0, d |-> 0, q |-> 0, P |-> 2, D |-> 0, Q |-> 2, seasonal_period |-> 6]

best_params2 ==
    [p |-> 2, d |-> 0, q |-> 0, P |-> 2, D |-> 0, Q |-> 2, seasonal_period |-> 12]

\* line 78: enumerate([best_params1, best_params2], 1)
candidate_list == <<best_params1, best_params2>>

Candidates == DOMAIN candidate_list

RmseValues == {5, 7}

\* fit() warns when the optimiser stops at maxiter without converging and
\* returns its result all the same; the scripts do not look at convergence
FitOutcomes ==
    {[ok |-> FALSE, converged |-> FALSE, rmse |-> 0]}
        \cup {[ok |-> TRUE, converged |-> c, rmse |-> r] :
                c \in BOOLEAN, r \in RmseValues}

\* the script that runs: predict_next_3days.py or predict_next_3_days_mlflow.py
Scripts == {"bentoml", "mlflow"}

\* line 26-28: the last 90 days of the snapshot
TrainingWindow(df) ==
    LET latest == MaxOf(Datetimes(df))
    IN  SelectSeq(df, LAMBDA r : r["datetime"] > latest - WindowDays * HoursPerDay)

\* line 26-29: the last 90 days of the snapshot, sorted by datetime
SortedWindows(df) == SortValuesOutcomes(TrainingWindow(df))

\* a split in the middle of the window
HalfSize(n) == n \div 2

\* line 68: int(len(df) * 0.8).  The double nearest to 0.8 lies above 0.8 and
\* within 1e-16 of it, so the product truncates to the floor of 4 * n / 5.
TrainSize(n) == (4 * n) \div 5

\* line 69, 71: iloc[:train_size]
TrainRows(df) == SubSeq(df, 1, TrainSize(Len(df)))

\* line 70, 72: iloc[train_size:]
ValRows(df) == SubSeq(df, TrainSize(Len(df)) + 1, Len(df))

\* results that hold every candidate, fitted or not
FittedAll(fits) == Candidates

\* a loop that stops at the first candidate that fails
FittedUntilFailure(fits) == {m \in Candidates : \A k \in 1..m : fits[k].ok}

\* line 75-120: the keys of models_results, the candidates whose fit and
\* validation raised nothing
Fitted(fits) == {m \in Candidates : fits[m].ok}

\* a selection that takes the last candidate fitted
BestModelLastFitted(fitted, fits) == MaxOf(fitted)

\* line 124: min over the fitted candidates by rmse; min() returns the first
\* of the smallest, and the candidates were entered in list order
BestModel(fitted, fits) ==
    CHOOSE m \in fitted :
        \A o \in fitted :
            fits[m].rmse < fits[o].rmse \/ (fits[m].rmse = fits[o].rmse /\ m <= o)

\* a refit on the training split only
RefitRowsTrainSplit(df) == TrainSize(Len(df))

\* line 160-162: the final model is fit on target and exog_features, all
\* rows of the window
RefitRows(df) == Len(df)

\* line 175-187: what save_model stores
SavedModel(df, best, fits) ==
    [params |-> candidate_list[best], rmse |-> fits[best].rmse,
     rows |-> RefitRows(df), features |-> Range(selected_features) \ {"datetime", "aqi_us"},
     target |-> "aqi_us"]

\* line 232-237 of the variant: the metrics of the winning candidate; its
\* errors, its AIC and the duration of the run are one number in the model
new_metrics(best_model_info) ==
    [rmse |-> best_model_info.rmse, mae |-> best_model_info.rmse,
     aic |-> best_model_info.rmse,
     training_duration_seconds |-> best_model_info.rmse]

\* a JSON object without keys
EmptyObject == [k \in {} |-> 0]

\* line 240-247 of the variant: the metrics on file, {} when there is no
\* file or json.load raises JSONDecodeError
LoadMetrics ==
    IF metrics = <<>> THEN EmptyObject
    ELSE IF ~metrics[1].parseable THEN EmptyObject
    ELSE metrics[1].object

\* the new metrics alone
MergeMetricsReplace(old, new) == new

\* line 250 of the variant: metrics.update(new_metrics)
MergeMetrics(old, new) ==
    [k \in DOMAIN old \cup DOMAIN new |->
        IF k \in DOMAIN new THEN new[k] ELSE old[k]]

\* line 158-236 (line 158-263 of the variant): the final fit, the save to
\* the model store, the forecast and the variant's metrics file
FitSaveForecast(script, df, best, fits, final_ok, save_ok, forecast_ok) ==
    IF ~final_ok
    THEN /\ train_exit' = "raise"
         /\ UNCHANGED <<model_store, predictions, predictions_mlflow, metrics>>
    ELSE /\ model_store' =
              IF script = "bentoml" /\ save_ok
              THEN <<SavedModel(df, best, fits)>>
              ELSE model_store
         /\ IF Len(df) >= PREDICT_HORIZON /\ forecast_ok
            THEN LET future_dates ==
                         [i \in 1..PREDICT_HORIZON |-> df[Len(df)]["datetime"] + i]
                 IN  /\ predictions' =
                            IF script = "bentoml" THEN future_dates ELSE predictions
                     /\ predictions_mlflow' =
                            IF script = "mlflow" THEN future_dates
                            ELSE predictions_mlflow
                     /\ metrics' =
                            IF script = "mlflow"
                            THEN <<[parseable |-> TRUE,
                                    object |-> MergeMetrics(LoadMetrics,
                                                            new_metrics(fits[best]))]>>
                            ELSE metrics
                     /\ train_exit' = "0"
            ELSE /\ train_exit' = "1"
                 /\ UNCHANGED <<predictions, predictions_mlflow, metrics>>

\* fit outcomes of the two candidates: only the second fitted, none fitted
FewFits ==
    {<<[ok |-> FALSE, converged |-> FALSE, rmse |-> 0],
       [ok |-> TRUE, converged |-> TRUE, rmse |-> 7]>>,
     <<[ok |-> FALSE, converged |-> FALSE, rmse |-> 0],
       [ok |-> FALSE, converged |-> FALSE, rmse |-> 0]>>}

\* one run of either script, with the candidates' fit outcomes among
\* outcomes; the tracking server is reachable or not
Train(script, outcomes) ==
    \E mlflow_ok \in BOOLEAN :
    IF ~mlflow_ok \/ ~fs_exists
    THEN /\ train_exit' = "raise"
         /\ models_results' = <<>>
         /\ best_model_name' = 0
         /\ train_target' = <<>>
         /\ val_target' = <<>>
         /\ UNCHANGED train_files
    ELSE \E df \in SortedWindows(fs_csv) :
         \E fits \in outcomes :
            LET fitted == Fitted(fits)
            IN  /\ models_results' = fits
                /\ train_target' = Column(TrainRows(df), "datetime")
                /\ val_target' = Column(ValRows(df), "datetime")
                /\ IF fitted = {}
                   THEN /\ train_exit' = "1"
                        /\ best_model_name' = 0
                        /\ UNCHANGED train_files
                   ELSE \E final_ok \in BOOLEAN :
                        \E save_ok \in (IF final_ok THEN BOOLEAN ELSE {FALSE}),
                           forecast_ok \in (IF final_ok THEN BOOLEAN ELSE {FALSE}) :
                            /\ best_model_name' = BestModel(fitted, fits)
                            /\ mlflow_runs' = mlflow_runs + 1
                            /\ FitSaveForecast(script, df, BestModel(fitted, fits), fits,
                                               final_ok, save_ok, forecast_ok)

InitTrain ==
    /\ model_store = <<>>
    /\ predictions = <<>>
    /\ train_exit = "none"
    /\ mlflow_runs = 0
    /\ predictions_mlflow = <<>>
    /\ metrics = <<>>
    /\ models_results = <<>>
    /\ best_model_name = 0
    /\ train_target = <<>>
    /\ val_target = <<>>

-----------------------------------------------------------------------------
(* Model serving: service.py.  A timestamp is the text the service parses  *)
(* and formats; a parsed timestamp is a record of its calendar fields.  The*)
(* values a fitted model forecasts are the library's: a forecast value is  *)
(* a term of its step and of the regressors it was given.                  *)

Digit(d) == SubSeq("0123456789", d + 1, d + 1)

IsDigit(ch) == \E d \in 0..9 : Digit(d) = ch

DigitValue(ch) == CHOOSE d \in 0..9 : Digit(d) = ch

\* int() of a text of decimal digits
RECURSIVE Number(_)
Number(s) ==
    IF s = "" THEN 0
    ELSE 10 * Number(SubSeq(s, 1, Len(s) - 1)) + DigitValue(SubSeq(s, Len(s), Len(s)))

AllDigits(s) == s # "" /\ \A i \in 1..Len(s) : IsDigit(SubSeq(s, i, i))

\* the texts between the separators seps of s, in order; <<>> when s does
\* not hold the separators in that order
RECURSIVE Fields(_, _)
Fields(s, seps) ==
    IF seps = "" THEN <<s>>
    ELSE LET cut == {i \in 1..Len(s) : SubSeq(s, i, i) = SubSeq(seps, 1, 1)}
         IN  IF cut = {} THEN <<>>
             ELSE LET i    == CHOOSE c \in cut : \A o \in cut : c <= o
                      rest == Fields(SubSeq(s, i + 1, Len(s)), SubSeq(seps, 2, Len(seps)))
                  IN  IF rest = <<>> THEN <<>> ELSE <<SubSeq(s, 1, i - 1)>> \o rest

IsLeap(year) == year % 4 = 0 /\ (year % 100 # 0 \/ year % 400 = 0)

DaysInMonth(year, month) ==
    IF month = 2 THEN (IF IsLeap(year) THEN 29 ELSE 28)
    ELSE IF month \in {4, 6, 9, 11} THEN 30 ELSE 31

\* days of the year before the first of month
DaysBeforeMonth(year, month) ==
    <<0, 31, 59, 90, 120, 151, 181, 212, 243, 273, 304, 334>>[month]
    + (IF month > 2 /\ IsLeap(year) THEN 1 ELSE 0)

\* days before January 1st of year, counted from 0001-01-01
DaysBeforeYear(year) ==
    LET y == year - 1 IN y * 365 + y \div 4 - y \div 100 + y \div 400

NotADate ==
    [valid |-> FALSE, year |-> 0, month |-> 0, day |-> 0,
     hour |-> 0, minute |-> 0, second |-> 0]

\* line 66: datetime.strptime(text, "%Y-%m-%d %H:%M:%S"); a text of another
\* shape or naming no instant raises ValueError
strptime(text) ==
    LET f == Fields(text, "-- ::")
    IN  IF f = <<>> THEN NotADate
        ELSE IF \/ \E i \in 1..6 : ~AllDigits(f[i])
                \/ Len(f[1]) # 4
                \/ \E i \in 2..6 : Len(f[i]) > 2
             THEN NotADate
             ELSE LET t == [valid |-> TRUE, year |-> Number(f[1]),
                            month |-> Number(f[2]), day |-> Number(f[3]),
                            hour |-> Number(f[4]), minute |-> Number(f[5]),
                            second |-> Number(f[6])]
                  IN  IF /\ t.year >= 1
                         /\ t.month \in 1..12
                         /\ t.day >= 1
                         /\ t.day <= DaysInMonth(t.year, t.month)
                         /\ t.hour <= 23
                         /\ t.minute <= 59
                         /\ t.second <= 59
                      THEN t
                      ELSE NotADate

\* date.toordinal()
Ordinal(t) == DaysBeforeYear(t.year) + DaysBeforeMonth(t.year, t.month) + t.day

\* the ordinal of date.max, 9999-12-31
MaxOrdinal == DaysBeforeYear(10000)

\* line 70: last_timestamp + timedelta(hours=i) is a datetime (it raises
\* OverflowError otherwise)
Representable(t, hours) == Ordinal(t) + (t.hour + hours) \div 24 <= MaxOrdinal

\* line 70: last_timestamp + timedelta(hours=i)
PlusHours(t, hours) ==
    LET n     == Ordinal(t) + (t.hour + hours) \div 24
        year  == CHOOSE y \in (n \div 366 + 1)..(n \div 365 + 1) :
                     DaysBeforeYear(y) < n /\ n <= DaysBeforeYear(y + 1)
        rest  == n - DaysBeforeYear(year)
        month == CHOOSE m \in 1..12 :
                     /\ DaysBeforeMonth(year, m) < rest
                     /\ rest <= DaysBeforeMonth(year, m) + DaysInMonth(year, m)
    IN  [valid |-> TRUE, year |-> year, month |-> month,
         day |-> rest - DaysBeforeMonth(year, month),
         hour |-> (t.hour + hours) % 24, minute |-> t.minute, second |-> t.second]

Pad2(n) == Digit(n \div 10) \o Digit(n % 10)

\* line 70: .strftime("%Y-%m-%d %H:%M:%S")
strftime(t) ==
    Pad2(t.year \div 100) \o Pad2(t.year % 100) \o "-" \o Pad2(t.month) \o "-"
    \o Pad2(t.day) \o " " \o Pad2(t.hour) \o ":" \o Pad2(t.minute) \o ":"
    \o Pad2(t.second)

\* line 134: datetime.isoformat(), the microseconds left out
isoformat(t) ==
    Pad2(t.year \div 100) \o Pad2(t.year % 100) \o "-" \o Pad2(t.month) \o "-"
    \o Pad2(t.day) \o "T" \o Pad2(t.hour) \o ":" \o Pad2(t.minute) \o ":"
    \o Pad2(t.second)

\* line 59: steps = input_data.get("steps", 72)
DefaultSteps == 72

\* what pickle.load may return for the artefact saved: the fitted results
\* the training script pickled, a dict holding them under one of the two
\* keys the service looks up, a dict holding under "model" something falsy
\* or something that cannot forecast, a dict with neither key, an object
\* that cannot forecast
Unpickled(saved) ==
    LET results == <<saved>>
        entry(kind, value) == [kind |-> kind, fitted |-> value]
        absent  == entry("absent", <<>>)
        object(under_model, under_fitted_model) ==
            [type |-> "dict", model |-> under_model,
             fitted_model |-> under_fitted_model]
    IN  {[type |-> "results", model |-> entry("results", results),
          fitted_model |-> absent],
         [type |-> "other", model |-> absent, fitted_model |-> absent],
         object(entry("results", results), absent),
         object(absent, entry("results", results)),
         object(entry("none", <<>>), entry("results", results)),
         object(entry("falsy", <<>>), entry("results", results)),
         object(entry("other", <<>>), entry("results", results)),
         object(entry("none", <<>>), entry("other", <<>>)),
         object(absent, absent)}

\* line 26: a or b
Or(a, b) == IF a.kind \in {"results", "other"} THEN a ELSE b

\* line 27, 31: hasattr(model, 'forecast')
HasForecast(entry) == entry.kind = "results"

\* line 25-30: the object the service takes as its model
FoundModel(loaded_object) ==
    IF loaded_object.type = "dict"
    THEN Or(loaded_object.model, loaded_object.fitted_model)
    ELSE IF loaded_object.type = "results"
         THEN loaded_object.model
         ELSE [kind |-> "other", fitted |-> <<>>]

\* a load that accepts whatever it finds
LoadRaisesNever(loaded_object) == FALSE

\* line 27-28, 31-32: the object found is None or cannot forecast
LoadRaises(loaded_object) == ~HasForecast(FoundModel(loaded_object))

\* line 19-36: the module is imported; an error raised here ends the
\* process before it serves anything
LoadService ==
    /\ service = "down"
    /\ \E readable \in BOOLEAN :
          IF model_store = <<>> \/ ~readable
          THEN /\ service' = "failed"
               /\ model' = <<>>
          ELSE \E loaded_object \in Unpickled(model_store[1]) :
                  IF LoadRaises(loaded_object)
                  THEN /\ service' = "failed"
                       /\ model' = <<>>
                  ELSE /\ service' = "serving"
                       /\ model' = FoundModel(loaded_object).fitted
    /\ UNCHANGED <<request, response, answers>>
    /\ UNCHANGED pipeline_state

\* a forecast that leaves its mark on what the service keeps: its values
\* depend on the answers given before
model_forecast_counting(steps, exog) ==
    [ok |-> TRUE,
     values |-> [i \in 1..steps |->
                    [fitted |-> model[1].params, step |-> i + Cardinality(answers),
                     rows |-> 0, cols |-> 0]],
     message |-> ""]

\* line 76, 78, 103: statsmodels' forecast of a fitted model: a model with regressors needs
\* values for them, as many as steps rows of k_exog values; exog is <<>>
\* (none given) or the shape of the array given
model_forecast(steps, exog) ==
    LET k_exog == Cardinality(model[1].features)
    IN  IF exog = <<>>
        THEN IF k_exog = 0
             THEN [ok |-> TRUE,
                   values |-> [i \in 1..steps |->
                                  [fitted |-> model[1].params, step |-> i,
                                   rows |-> 0, cols |-> 0]],
                   message |-> ""]
             ELSE
             [ok |-> FALSE, values |-> <<>>,
              message |-> "Out-of-sample operations in a model with a regression component require additional exogenous values."]
        ELSE IF exog[1].rows * exog[1].cols # steps * k_exog
             THEN [ok |-> FALSE, values |-> <<>>,
                   message |-> "Provided exogenous values are not of the appropriate shape."]
             ELSE [ok |-> TRUE,
                   values |-> [i \in 1..steps |->
                                  [fitted |-> model[1].params, step |-> i,
                                   rows |-> exog[1].rows, cols |-> exog[1].cols]],
                   message |-> ""]

\* the message of the error as the status, the dates of the request kept
ErrorResponseBare(message) ==
    [forecast |-> <<>>, forecast_dates |-> <<message>>, status |-> message]

\* line 86-91: the response of a request that raised
ErrorResponse(message) ==
    [forecast |-> <<>>, forecast_dates |-> <<>>, status |-> "error: " \o message]

\* line 63: not last_timestamp_str
NoTimestamp(last_timestamp_str) ==
    ~last_timestamp_str.given \/ last_timestamp_str.text = ""

\* the dates of the steps hours from last_timestamp on
ForecastDatesFromLast(last_timestamp, steps) ==
    [k \in 1..steps |-> LET i == k - 1 IN strftime(PlusHours(last_timestamp, i))]

\* line 69-72: the dates of the steps hours after last_timestamp
ForecastDates(last_timestamp, steps) ==
    [k \in 1..steps |-> LET i == k - 1 IN strftime(PlusHours(last_timestamp, i + 1))]

\* line 43-91: forecast
forecast(input_data) ==
    IF ~input_data.is_dict
    THEN ErrorResponse("'list' object has no attribute 'get'")
    ELSE
    LET exog_data  == input_data.exog_data
        exog_array == IF exog_data.rows > 0 THEN <<exog_data>> ELSE <<>>
        steps      == IF input_data.steps.kind = "absent"
                      THEN [kind |-> "int", n |-> DefaultSteps]
                      ELSE input_data.steps
        last_timestamp_str == input_data.last_timestamp
    IN  IF NoTimestamp(last_timestamp_str)
        THEN ErrorResponse("last_timestamp is required in the input data")
        ELSE
        LET last_timestamp == strptime(last_timestamp_str.text)
        IN  IF ~last_timestamp.valid
            THEN ErrorResponse("time data '" \o last_timestamp_str.text
                               \o "' does not match format '%Y-%m-%d %H:%M:%S'")
            ELSE IF steps.kind # "int"
            THEN ErrorResponse("'str' object cannot be interpreted as an integer")
            ELSE IF ~Representable(last_timestamp, steps.n)
            THEN ErrorResponse("date value out of range")
            ELSE
            LET forecast_dates == ForecastDates(last_timestamp, steps.n)
                predicted ==
                    IF exog_array # <<>> /\ exog_data.rows * exog_data.cols > 0
                    THEN model_forecast(steps.n, exog_array)
                    ELSE model_forecast(steps.n, <<>>)
            IN  IF ~predicted.ok
                THEN ErrorResponse(predicted.message)
                ELSE [forecast |-> predicted.values,
                      forecast_dates |-> forecast_dates,
                      status |-> "success"]

\* line 94-123: predict_simple, at the wall-clock instant now
predict_simple(input_data, now) ==
    LET steps == IF input_data.steps.kind = "absent"
                 THEN [kind |-> "int", n |-> DefaultSteps]
                 ELSE input_data.steps
        predicted ==
            IF steps.kind = "int" THEN model_forecast(steps.n, <<>>)
            ELSE [ok |-> FALSE, values |-> <<>>,
                  message |-> "'str' object cannot be interpreted as an integer"]
    IN  IF ~input_data.is_dict
        THEN [error |-> "'list' object has no attribute 'get'", status |-> "error"]
        ELSE IF ~predicted.ok
        THEN [error |-> predicted.message, status |-> "error"]
        ELSE IF ~Representable(now, steps.n)
        THEN [error |-> "date value out of range", status |-> "error"]
        ELSE [forecast |-> predicted.values,
              forecast_dates |->
                  [i \in 1..steps.n |-> strftime(PlusHours(now, i))],
              steps_requested |-> steps.n,
              status |-> "success"]

\* line 126-141: health_check
health_check(now) ==
    [status |-> "healthy", model_loaded |-> model # <<>>, timestamp |-> isoformat(now)]

\* the longest horizon requested, the default apart
MaxHorizon == 2

\* the most rows of regressors sent, the client's 72 apart
MaxExogRows == 4

Here == [given |-> TRUE, text |-> "2025-07-13 23:00:00"]

\* last_timestamp as requests give it: the client's, one before a leap day,
\* one at the end of a year, the last day there is, no day at all, another
\* format, empty, not given
Timestamps ==
    {Here,
     [given |-> TRUE, text |-> "2024-02-28 23:30:15"],
     [given |-> TRUE, text |-> "2025-12-31 23:00:00"],
     [given |-> TRUE, text |-> "9999-12-31 00:00:00"],
     [given |-> TRUE, text |-> "2025-02-30 10:00:00"],
     [given |-> TRUE, text |-> "2025-07-13T23:00:00"],
     [given |-> TRUE, text |-> ""],
     [given |-> FALSE, text |-> ""]}

\* steps as requests give it: a horizon, a text, not given
StepsGiven ==
    {[kind |-> "int", n |-> n] : n \in (1..MaxHorizon) \cup {DefaultSteps}}
    \cup {[kind |-> "str", n |-> 0], [kind |-> "absent", n |-> 0]}

\* the horizon the service takes from steps
Horizon(steps) == IF steps.kind = "int" THEN steps.n ELSE DefaultSteps

\* exog_data as requests give it: rows of so many values each, the
\* client's 72 rows, one empty row
ExogShapes ==
    {[rows |-> r, cols |-> c] : r \in 0..MaxExogRows, c \in {6, 12, 24}}
    \cup {[rows |-> DefaultSteps, cols |-> 12], [rows |-> 1, cols |-> 0]}

\* the requests sent to forecast and predict_simple: every timestamp and
\* horizon with one row of twelve regressors for each hour, the client's
\* timestamp with every horizon and every shape of regressors, a JSON array
Requests ==
    {[is_dict |-> TRUE, exog_data |-> [rows |-> Horizon(s), cols |-> 12],
      steps |-> s, last_timestamp |-> t] : t \in Timestamps, s \in StepsGiven}
    \cup {[is_dict |-> TRUE, exog_data |-> e, steps |-> s, last_timestamp |-> Here] :
             e \in ExogShapes, s \in {g \in StepsGiven : g.kind = "int"}}
    \cup {[is_dict |-> FALSE, exog_data |-> [rows |-> 0, cols |-> 0],
           steps |-> [kind |-> "absent", n |-> 0],
           last_timestamp |-> [given |-> FALSE, text |-> ""]]}

\* the requests sent to predict_simple, which reads steps only
SimpleRequests ==
    {r \in Requests : r.last_timestamp = Here /\ r.exog_data.cols = 12}

\* run_prediction_client.py line 49-54: the request the client sends
ClientRequest ==
    [is_dict |-> TRUE, exog_data |-> [rows |-> 72, cols |-> 12],
     steps |-> [kind |-> "int", n |-> 72], last_timestamp |-> Here]

\* the requests whose answers are kept for comparison
Probes ==
    {ClientRequest,
     [is_dict |-> TRUE, exog_data |-> [rows |-> 1, cols |-> 12],
      steps |-> [kind |-> "int", n |-> 1],
      last_timestamp |-> [given |-> FALSE, text |-> ""]]}

\* datetime.now() when a request is handled
Clock == {strptime("2025-07-14 10:17:42"), strptime("2025-12-31 23:59:59")}

NoRequest ==
    [api |-> "none", input_data |-> ClientRequest, now |-> NotADate]

ForecastRequest ==
    /\ service = "serving"
    /\ \E input_data \in Requests :
          /\ request' = [api |-> "forecast", input_data |-> input_data, now |-> NotADate]
          /\ response' = forecast(input_data)
          /\ answers' = IF input_data \in Probes
                        THEN answers \cup {<<input_data, forecast(input_data)>>}
                        ELSE answers
    /\ UNCHANGED <<service, model>>
    /\ UNCHANGED pipeline_state

PredictSimpleRequest ==
    /\ service = "serving"
    /\ \E input_data \in SimpleRequests, now \in Clock :
          /\ request' = [api |-> "predict_simple", input_data |-> input_data, now |-> now]
          /\ response' = predict_simple(input_data, now)
    /\ UNCHANGED <<service, model, answers>>
    /\ UNCHANGED pipeline_state

HealthRequest ==
    /\ service = "serving"
    /\ \E now \in Clock :
          /\ request' = [api |-> "health", input_data |-> ClientRequest, now |-> now]
          /\ response' = health_check(now)
    /\ UNCHANGED <<service, model, answers>>
    /\ UNCHANGED pipeline_state

InitServe ==
    /\ service = "down"
    /\ model = <<>>
    /\ request = NoRequest
    /\ response = [status |-> "none"]
    /\ answers = {}

-----------------------------------------------------------------------------
(* Specifications. *)

vars == <<pipeline_state, serve_state>>

Init ==
    /\ InitIngest
    /\ InitGate
    /\ InitFe
    /\ InitSnapshot(FALSE)
    /\ InitTrain
    /\ pc = "idle"
    /\ last = "none"
    /\ InitServe

Tick ==
    /\ Midnight
    /\ last' = "tick"
    /\ UNCHANGED <<gate_state, fe_state, snapshot_state, train_state, pc, serve_state>>

IngestRun ==
    /\ \E rev \in Revisions, http_ok \in BOOLEAN : Ingest(rev, http_ok)
    /\ last' = "fetch_daily_data"
    /\ UNCHANGED <<gate_state, fe_state, snapshot_state, train_state, pc, serve_state>>

PreprocessRun ==
    /\ Preprocess
    /\ last' = "run_preprocessing"
    /\ UNCHANGED <<ingest_state, gate_state, snapshot_state, train_state, pc, serve_state>>

FetchRun ==
    /\ runs < MaxBatches
    /\ IngestRun

NextFe == Tick \/ FetchRun \/ PreprocessRun

\* ingestion and feature engineering run in any order, on any day
SpecFe == Init /\ [][NextFe]_vars

NextIngest == Tick \/ IngestRun

\* the ingestion script run again and again, on any day
SpecIngest == Init /\ [][NextIngest]_vars

\* the most rows of the historical table that repeat a datetime
MaxRepeated == 3

\* a historical table that was not written by the script: day 0 as first
\* answered, behind it its first hours again, as first answered or revised
RepeatedTables ==
    {Fetch(0, 0) \o SubSeq(Fetch(0, rev), 1, k) :
        rev \in Revisions, k \in 1..MaxRepeated}

InitRepeated ==
    /\ today = 1
    /\ csv_exists = TRUE
    /\ csv \in RepeatedTables
    /\ backup = <<>>
    /\ merged_df = <<>>
    /\ ingest_exit = "none"
    /\ runs = 0
    /\ InitGate
    /\ InitFe
    /\ InitSnapshot(FALSE)
    /\ InitTrain
    /\ pc = "idle"
    /\ last = "none"
    /\ InitServe

\* an ingestion run that the API answers
FetchAnswered ==
    /\ \E rev \in Revisions : Ingest(rev, TRUE)
    /\ last' = "fetch_daily_data"
    /\ UNCHANGED <<gate_state, fe_state, snapshot_state, train_state, pc, serve_state>>

NextRepeated == Tick \/ FetchAnswered

\* answered ingestion runs on a table that repeats datetimes
SpecRepeated == InitRepeated /\ [][NextRepeated]_vars

\* the row of df at datetime d
RowAt(df, d) == df[CHOOSE i \in 1..Len(df) : df[i]["datetime"] = d]

\* the datetimes the sort of a run's merge is given, in the order given
MergeKeys(existing, fetched) ==
    Column(DropNaDatetime(existing) \o fetched, "datetime")

\* a sort whose order of equal datetimes is anyone's guess at every call
SortArbitrary == TRUE

\* fetch_daily_data.py line 122: sort_values("datetime") orders equal
\* datetimes by the datetimes it is given alone.  When this run's merge
\* sorts the datetimes the run before sorted, the same of two rows of a
\* datetime comes last: the fetched one if the fetched one was kept then,
\* the table's if the table's was (which it was shows when they differed).
SortRepeats ==
    (/\ ingest_exit = "ok"
     /\ backup # <<>>
     /\ MergeKeys(backup, merged_df) = MergeKeys(csv, merged_df'))
        => \A d \in Datetimes(csv) \cap Datetimes(merged_df') :
              LET fetched_kept == RowAt(csv, d) = RowAt(Reorder(merged_df), d)
                  table_kept   == RowAt(csv, d) = RowAt(backup, d)
              IN  /\ (fetched_kept /\ ~table_kept)
                        => RowAt(csv', d) = RowAt(Reorder(merged_df'), d)
                  /\ (table_kept /\ ~fetched_kept)
                        => RowAt(csv', d) = RowAt(csv, d)

\* an ingestion run that the API answers, after others
FetchNext ==
    /\ FetchAnswered
    /\ SortRepeats

NextRerun == Tick \/ FetchNext

\* historical tables the script has written: day 0 as first answered or as
\* revised, day 0 behind the day before it
WrittenTables ==
    UNION {FinalWrite(Fetch(0, rev)) : rev \in Revisions}
    \cup FinalWrite(Fetch(0 - 1, 0) \o Fetch(0, 0))

\* there is no historical table yet, or one the script wrote on day 1
InitRerun ==
    /\ today = 1
    /\ \E written \in {<<>>} \cup WrittenTables :
          /\ csv_exists = (written # <<>>)
          /\ csv = written
    /\ backup = <<>>
    /\ merged_df = <<>>
    /\ ingest_exit = "none"
    /\ runs = 0
    /\ InitGate
    /\ InitFe
    /\ InitSnapshot(FALSE)
    /\ InitTrain
    /\ pc = "idle"
    /\ last = "none"
    /\ InitServe

\* answered ingestion runs on any day, the sort the same at every run
SpecRerun == InitRerun /\ [][NextRerun]_vars

\* feature_selection.csv is on disk; the feature table is absent, or is one
\* an earlier form of the feature-engineering script wrote
InitSelection ==
    /\ InitIngest
    /\ InitGate
    /\ \E legacy \in BOOLEAN :
          /\ fe_exists = legacy
          /\ fe_csv = IF legacy THEN LegacyFeatures ELSE <<>>
    /\ new_df = <<>>
    /\ fe_exit = "none"
    /\ fe_wrote = FALSE
    /\ fs_exists = TRUE
    /\ fs_csv = EarlySeedSnapshot
    /\ fs_exit = "none"
    /\ InitTrain
    /\ pc = "idle"
    /\ last = "none"
    /\ InitServe

SelectionRun ==
    /\ FeatureSelection
    /\ last' = "feature_selection"
    /\ UNCHANGED <<ingest_state, gate_state, fe_state, train_state, pc, serve_state>>

\* an ingestion run that gets the API's first answer
FetchFirstAnswer ==
    /\ runs < MaxBatches
    /\ Ingest(0, TRUE)
    /\ last' = "fetch_daily_data"
    /\ UNCHANGED <<gate_state, fe_state, snapshot_state, train_state, pc, serve_state>>

NextSelection == Tick \/ FetchFirstAnswer \/ PreprocessRun \/ SelectionRun

\* feature engineering and feature selection in any order, on a raw history
\* that grows by a day at a time
SpecSelection == InitSelection /\ [][NextSelection]_vars

\* the hours of day 0 and of the day before that the snapshot was seeded
\* without
MissingHours == {5, 0 - 20}

\* a snapshot that ends at noon of day 0 and lacks two hours before it
GappedSnapshot ==
    SelectSeq(EarlySeedSnapshot, LAMBDA r : r["datetime"] \notin MissingHours)

InitBackfill ==
    /\ InitIngest
    /\ InitGate
    /\ fe_exists = TRUE
    /\ fe_csv = LegacyFeatures
    /\ new_df = <<>>
    /\ fe_exit = "none"
    /\ fe_wrote = FALSE
    /\ fs_exists = TRUE
    /\ fs_csv = GappedSnapshot
    /\ fs_exit = "none"
    /\ InitTrain
    /\ pc = "idle"
    /\ last = "none"
    /\ InitServe

\* feature engineering and feature selection in any order, the snapshot
\* seeded with hours missing
SpecBackfill == InitBackfill /\ [][NextSelection]_vars

\* feature_selection.csv as a training run finds it: the seeded days behind
\* two rows of 90 days before, one at the window's open end and one inside
\* it; the same rows with the old ones written last; ten rows only
TrainingSnapshots ==
    LET latest == SeedSnapshot[Len(SeedSnapshot)]["datetime"]
        aged   == <<SeedRow(latest - WindowDays * HoursPerDay),
                    SeedRow(latest - WindowDays * HoursPerDay + 1)>>
    IN  {aged \o SeedSnapshot, SeedSnapshot \o aged, SubSeq(SeedSnapshot, 1, 10)}

InitTraining ==
    /\ InitIngest
    /\ InitGate
    /\ InitFe
    /\ fs_exists = TRUE
    /\ fs_csv \in TrainingSnapshots
    /\ fs_exit = "none"
    /\ InitTrain
    /\ pc = "idle"
    /\ last = "none"
    /\ InitServe

MaxTrackedRuns == 1

TrainRun ==
    /\ mlflow_runs < MaxTrackedRuns
    /\ Train("bentoml", [Candidates -> FitOutcomes])
    /\ last' = "predict_next_3days"
    /\ UNCHANGED <<ingest_state, gate_state, fe_state, snapshot_state, pc, serve_state>>

TrainMlflowRun ==
    /\ mlflow_runs < MaxTrackedRuns
    /\ Train("mlflow", [Candidates -> FitOutcomes])
    /\ last' = "predict_next_3_days_mlflow"
    /\ UNCHANGED <<ingest_state, gate_state, fe_state, snapshot_state, pc, serve_state>>

NextTraining == TrainRun \/ TrainMlflowRun

\* the two training scripts run again and again on a snapshot
SpecTraining == InitTraining /\ [][NextTraining]_vars

\* metrics.json as a training run finds it: absent, not JSON (empty,
\* cut short), an object without keys, an object with the metrics of an
\* earlier run and those the ingestion monitoring keeps
MetricsFiles ==
    {<<>>,
     <<[parseable |-> FALSE, object |-> EmptyObject]>>,
     <<[parseable |-> TRUE, object |-> EmptyObject]>>,
     <<[parseable |-> TRUE,
        object |-> [rmse |-> 99, mae |-> 99, api_success_rate |-> 1,
                    api_response_time |-> 3]]>>}

InitMetrics ==
    /\ InitIngest
    /\ InitGate
    /\ InitFe
    /\ fs_exists = TRUE
    /\ fs_csv = SeedSnapshot
    /\ fs_exit = "none"
    /\ model_store = <<>>
    /\ predictions = <<>>
    /\ train_exit = "none"
    /\ mlflow_runs = 0
    /\ predictions_mlflow = <<>>
    /\ metrics \in MetricsFiles
    /\ models_results = <<>>
    /\ best_model_name = 0
    /\ train_target = <<>>
    /\ val_target = <<>>
    /\ pc = "idle"
    /\ last = "none"
    /\ InitServe

\* the two training scripts run again and again, a metrics file of any
\* kind on disk
SpecMetrics == InitMetrics /\ [][NextTraining]_vars

\* The scheduled pipeline: the stages run one after the other, and a stage
\* that ends with an error stops the run.
Downstream == {"run_preprocessing", "feature_selection", "predict_next_3days"}

InitPipeline ==
    /\ InitIngest
    /\ InitGate
    /\ InitFe
    /\ \E seeded \in BOOLEAN : InitSnapshot(seeded)
    /\ InitTrain
    /\ pc = "idle"
    /\ last = "none"
    /\ InitServe

NextDay ==
    /\ pc = "idle"
    /\ Midnight
    /\ last' = "tick"
    /\ UNCHANGED <<gate_state, fe_state, snapshot_state, train_state, pc, serve_state>>

FetchStage ==
    /\ pc = "idle"
    /\ runs < MaxBatches
    /\ \E rev \in Revisions, http_ok \in BOOLEAN : Ingest(rev, http_ok)
    /\ last' = "fetch_daily_data"
    /\ pc' = IF ingest_exit' = "ok" THEN "fetched" ELSE "idle"
    /\ UNCHANGED <<gate_state, fe_state, snapshot_state, train_state, serve_state>>

QualityStage ==
    /\ pc = "fetched"
    /\ QualityCheck
    /\ last' = "data_quality_check"
    /\ pc' = IF quality_exit' = "0" THEN "checked" ELSE "idle"
    /\ UNCHANGED <<fe_state, snapshot_state, train_state, serve_state>>

PreprocessStage ==
    /\ pc = "checked"
    /\ Preprocess
    /\ last' = "run_preprocessing"
    /\ pc' = IF fe_exit' = "0" THEN "engineered" ELSE "idle"
    /\ UNCHANGED <<ingest_state, gate_state, snapshot_state, train_state, serve_state>>

SelectionStage ==
    /\ pc = "engineered"
    /\ FeatureSelection
    /\ last' = "feature_selection"
    /\ pc' = IF fs_exit' = "0" THEN "selected" ELSE "idle"
    /\ UNCHANGED <<ingest_state, gate_state, fe_state, train_state, serve_state>>

TrainStage ==
    /\ pc = "selected"
    /\ Train("bentoml", FewFits)
    /\ last' = "predict_next_3days"
    /\ pc' = "idle"
    /\ UNCHANGED <<ingest_state, gate_state, fe_state, snapshot_state, serve_state>>

NextPipeline ==
    \/ NextDay
    \/ FetchStage
    \/ QualityStage
    \/ PreprocessStage
    \/ SelectionStage
    \/ TrainStage

SpecPipeline == InitPipeline /\ [][NextPipeline]_vars

\* Crafted historical tables for the quality gate: a clean hourly table of
\* n rows, with one fault in one column and one fault in the datetime column.
CleanCell(col, i, n) ==
    CASE col = "datetime"   -> i - 1
      [] col = "temp_C"     -> 5 + (i % 2)
      [] col = "humidity_%" -> i % 2
      [] col = "o3"         -> 1 + (i % 2)
      [] col = "aqi_us"     -> 50 + i
      [] OTHER              -> IF i = n THEN 2 ELSE IF i = n - 1 THEN 1 ELSE 0

ValueFaults == {"none", "null", "low", "high", "flat", "tail"}

DatetimeFaults == {"none", "dup", "gap", "unsorted"}

FaultyCell(col, i, n, fault, k) ==
    CASE fault = "null" /\ i <= k -> NaN
      [] fault = "low" /\ i <= k  -> expected_ranges[col][1] - 1
      [] fault = "high" /\ i <= k -> expected_ranges[col][2] + 1
      [] fault = "flat"           -> CleanCell(col, 1, n)
      [] fault = "tail"           -> CleanCell("co", i, n)
      [] OTHER                    -> CleanCell(col, i, n)

FaultyDatetime(i, n, fault) ==
    CASE fault = "dup" /\ i = n      -> n - 2
      [] fault = "gap" /\ i = n      -> n
      [] fault = "unsorted" /\ i = 1 -> 1
      [] fault = "unsorted" /\ i = 2 -> 0
      [] OTHER                       -> i - 1

CraftedTable(n, col, fault, k, dfault) ==
    [i \in 1..n |->
        [c \in Range(column_order) |->
            IF c = "datetime" THEN FaultyDatetime(i, n, dfault)
            ELSE IF c = col THEN FaultyCell(c, i, n, fault, k)
            ELSE CleanCell(c, i, n)]]

CraftedTables ==
    {CraftedTable(n, col, fault, k, dfault) :
        n \in {GateRows, 2 * GateRows}, col \in numerical_cols,
        fault \in ValueFaults, k \in 1..FaultRows, dfault \in DatetimeFaults}

\* the gate given any crafted table as the historical CSV
InitCrafted ==
    /\ today = 1
    /\ csv_exists = TRUE
    /\ csv \in CraftedTables
    /\ backup = <<>>
    /\ merged_df = <<>>
    /\ ingest_exit = "none"
    /\ runs = 0
    /\ InitGate
    /\ InitFe
    /\ InitSnapshot(FALSE)
    /\ InitTrain
    /\ pc = "idle"
    /\ last = "none"
    /\ InitServe

QualityCheckRun ==
    /\ QualityCheck
    /\ last' = "data_quality_check"
    /\ UNCHANGED <<fe_state, snapshot_state, train_state, pc, serve_state>>

NextGate == QualityCheckRun

SpecGate == InitCrafted /\ [][NextGate]_vars

\* the model the training script saved from the seeded snapshot
DeployedModel ==
    SavedModel(SeedSnapshot, 2,
               <<[ok |-> FALSE, converged |-> FALSE, rmse |-> 0],
                 [ok |-> TRUE, converged |-> TRUE, rmse |-> 7]>>)

\* the model store is empty or holds a trained model; the service is down
InitService ==
    /\ InitIngest
    /\ InitGate
    /\ InitFe
    /\ InitSnapshot(FALSE)
    /\ model_store \in {<<>>, <<DeployedModel>>}
    /\ predictions = <<>>
    /\ train_exit = "none"
    /\ mlflow_runs = 0
    /\ predictions_mlflow = <<>>
    /\ metrics = <<>>
    /\ models_results = <<>>
    /\ best_model_name = 0
    /\ train_target = <<>>
    /\ val_target = <<>>
    /\ pc = "idle"
    /\ last = "none"
    /\ InitServe

NextService == LoadService \/ ForecastRequest \/ PredictSimpleRequest \/ HealthRequest

\* the service is started once and answers requests in any order
SpecService == InitService /\ [][NextService]_vars

-----------------------------------------------------------------------------
(* Properties of ingestion. *)

\* C1: the historical table a run leaves on disk has no two rows with the same
\* datetime and is sorted ascending by datetime.
C1_UniqueSorted == csv_exists => IsSortedUnique(csv)

\* a second fetch of a day already in the table has been merged into it
C1_Witness ==
    /\ ingest_exit = "ok"
    /\ backup # <<>>
    /\ Datetimes(merged_df) \subseteq Datetimes(backup)
    /\ Len(csv) = Len(backup)

\* C2: after a run that fetched a row for a datetime the table already held,
\* the table holds the fetched row's values for that datetime.
C2_LastWriteWins ==
    (ingest_exit = "ok" /\ backup # <<>>) =>
        \A i \in 1..Len(merged_df) :
            merged_df[i]["datetime"] \in Datetimes(backup) =>
                \E j \in 1..Len(csv) : csv[j] = Reorder(merged_df)[i]

\* C3: a run keeps every datetime of the table, never shortens it, and changes
\* an existing row only by putting a fetched row of the same datetime in its
\* place.
C3_AppendOnly ==
    [][csv_exists =>
          /\ Datetimes(csv) \subseteq Datetimes(csv')
          /\ Len(csv') >= Len(csv)
          /\ \A i \in 1..Len(csv) :
                \/ csv[i] \in Range(csv')
                \/ \E j \in 1..Len(merged_df') :
                      /\ merged_df'[j]["datetime"] = csv[i]["datetime"]
                      /\ Reorder(merged_df')[j] \in Range(csv')]_vars

\* a run has appended a new day to an existing table, and an earlier run
\* replaced a row of it
C3_Witness ==
    /\ ingest_exit = "ok"
    /\ backup # <<>>
    /\ Len(csv) > Len(backup)
    /\ \E i \in 1..Len(csv) : csv[i]["aqi_us"] # csv[i]["datetime"]

-----------------------------------------------------------------------------
(* Properties of the quality gate. *)

GateRan == last = "data_quality_check" /\ csv_exists

\* some column is more than 10% null
SomeColumnOverTenPercentNull(df) ==
    \E c \in Range(column_order) :
        Cardinality({i \in 1..Len(df) : IsNull(df[i][c])}) * 10 > Len(df)

\* some range-checked column has a value outside its range
SomeValueOutOfRange(df) ==
    \E c \in DOMAIN expected_ranges, i \in 1..Len(df) :
        /\ ~IsNull(df[i][c])
        /\ ~(expected_ranges[c][1] <= df[i][c] /\ df[i][c] <= expected_ranges[c][2])

\* some numeric column has more IQR outliers than 15% of the rows
SomeColumnOverOutlierShare(df) ==
    \E c \in numerical_cols : Outliers(df, c) * 20 > Len(df) * 3

\* some successive difference of the sorted datetimes is not one hour
SomeStepNotOneHour(df) ==
    LET sorted == SortInts(Column(df, "datetime"))
    IN  \E i \in 1..(Len(df) - 1) : sorted[i + 1] # sorted[i] + 1

\* some datetime is repeated
SomeDatetimeRepeated(df) ==
    \E i, j \in 1..Len(df) : i < j /\ df[i]["datetime"] = df[j]["datetime"]

\* the observed and the expected log-candidate sets differ
LogSetsDiffer(df) == log_candidates(df) # expected_log_features

\* C4: the gate exits non-zero exactly when one of its six flags fires (on the
\* table as the gate sees it, windspeed capped); a table with 20% missing
\* values in one column fails.
C4_FailsIffSomeFlag ==
    GateRan =>
        LET df == CapWindspeed(csv)
        IN  /\ (quality_exit = "1") <=>
                \/ SomeColumnOverTenPercentNull(df)
                \/ SomeValueOutOfRange(df)
                \/ SomeColumnOverOutlierShare(df)
                \/ SomeStepNotOneHour(df)
                \/ SomeDatetimeRepeated(df)
                \/ LogSetsDiffer(df)
            /\ (\E c \in Range(column_order) :
                    Cardinality({i \in 1..Len(csv) : IsNull(csv[i][c])}) * 5 = Len(csv))
                => quality_exit = "1"

\* the gate has failed a table whose only fault is 20% missing values in one column
C4_Witness ==
    /\ GateRan
    /\ quality_exit = "1"
    /\ \E c \in Range(column_order) :
          Cardinality({i \in 1..Len(csv) : IsNull(csv[i][c])}) * 5 = Len(csv)
    /\ ~SomeValueOutOfRange(csv)
    /\ ~SomeColumnOverOutlierShare(csv)
    /\ ~SomeStepNotOneHour(csv)
    /\ ~SomeDatetimeRepeated(csv)
    /\ ~LogSetsDiffer(csv)

\* a clean table in the words of C5: hourly, no repeated datetime, all values
\* in range, no column over the missing or the outlier threshold
Clean(df) ==
    /\ ~SomeStepNotOneHour(df)
    /\ ~SomeDatetimeRepeated(df)
    /\ ~SomeValueOutOfRange(df)
    /\ ~SomeColumnOverTenPercentNull(df)
    /\ ~SomeColumnOverOutlierShare(df)

\* C5 as claimed: given a clean table, the gate reports success.
C5_CleanPasses == (GateRan /\ Clean(csv)) => quality_exit = "0"

\* C5 as amended: given a clean table whose columns of skewness above 1.0 are
\* exactly the expected log-transform set, the gate reports success.
C5_CleanExpectedSkewPasses ==
    (GateRan /\ Clean(csv) /\ ~LogSetsDiffer(csv)) => quality_exit = "0"

\* the gate has passed a clean table
C5_Witness == GateRan /\ Clean(csv) /\ ~LogSetsDiffer(csv) /\ quality_exit = "0"

\* C6: the gate fails whenever the log-candidate set differs from the expected
\* set, and when the two are equal the gate's verdict is that of the other checks.
C6_LogSetMismatchFails ==
    GateRan =>
        LET df == CapWindspeed(csv)
        IN  /\ LogSetsDiffer(df) => quality_exit = "1"
            /\ ~LogSetsDiffer(df) =>
                  ((quality_exit = "1") <=>
                      \/ HighMissing(df)
                      \/ \E c \in DOMAIN expected_ranges : out_of_range(df)[c] > 0
                      \/ HighOutliers(df)
                      \/ DatetimeGaps(df)
                      \/ duplicates(df) > 0)

\* the gate has failed an otherwise clean table over the log-candidate set alone
C6_Witness == GateRan /\ Clean(csv) /\ LogSetsDiffer(csv) /\ quality_exit = "1"

\* the stages of the pipeline that read the historical table after the gate
AfterGate == {"checked", "engineered", "selected"}

\* what the downstream stages write
downstream_files == <<fe_exists, fe_csv, fs_csv, model_store, predictions>>

\* C7: the quality gate is a hard gate: when the pipeline is past the gate, the
\* historical table has passed it (exit status 0, none of the six flags on the
\* table as it is now); feature engineering, feature selection and training
\* run only past the gate; and the feature table, the snapshot, the model and
\* the forecast are written by these stages alone, so never from a table the
\* gate has failed.
C7_HardGate ==
    /\ [](pc \in AfterGate => (quality_exit = "0" /\ ~quality_issues(csv)))
    /\ [][last' \in Downstream => pc \in AfterGate]_vars
    /\ [][downstream_files' # downstream_files => last' \in Downstream]_vars

\* the gate has failed the table of a later run, after an earlier run had
\* engineered features, and the run has stopped there
C7_Witness ==
    /\ last = "data_quality_check"
    /\ quality_exit = "1"
    /\ quality_issues(csv)
    /\ pc = "idle"
    /\ fe_exists

\* datetime and lag columns of a feature table
LagColumns(df) ==
    [i \in 1..Len(df) |-> [c \in {"datetime"} \cup lag_columns |-> df[i][c]]]

\* C8: in the sorted feature table the lag column of offset k (1, 12, 24) of
\* row i holds the target of row i - k, or null when there is no such row; and
\* when the feature table covers the rows of the raw history, its lag columns
\* are those a single run over the whole raw history engineers, however many
\* incremental runs built it.
C8_LagsOverWholeSeries ==
    fe_exists =>
        /\ \A i \in 1..Len(fe_csv), k \in lag_offsets :
              fe_csv[i][LagName(k)] =
                  IF i > k THEN fe_csv[i - k]["aqi_us"] ELSE NaN
        /\ (csv_exists /\ TargetSeries(fe_csv) = TargetSeries(csv)) =>
              \A single \in Engineer(<<>>, csv) :
                  LagColumns(single) = LagColumns(fe_csv)

\* the feature table was built by more than one run, covers the raw history,
\* and the first row of the last batch has its 24-hour lag from an earlier batch
C8_Witness ==
    /\ fe_exists /\ fe_wrote /\ csv_exists
    /\ new_df # <<>>
    /\ Len(new_df) < Len(fe_csv)
    /\ TargetSeries(fe_csv) = TargetSeries(csv)
    /\ new_df[1]["aqi_us_lag24"] # NaN

\* C9: after feature-engineering runs that wrote output, the feature table
\* has one row per datetime and ascending datetimes, and the rows the last
\* writing run engineered are the ones it holds for their datetimes.
C9_OneRowPerDatetimeSorted ==
    fe_exists =>
        /\ IsSortedUnique(fe_csv)
        /\ fe_wrote =>
              \A i \in 1..Len(new_df) : RowsAt(fe_csv, new_df[i]["datetime"]) = <<new_df[i]>>

\* a second writing run has added its rows behind those of the first
C9_Witness ==
    /\ fe_exists /\ fe_wrote
    /\ new_df # <<>>
    /\ Len(fe_csv) > Len(new_df)
    /\ fe_csv[Len(fe_csv)] = new_df[Len(new_df)]

\* every datetime of the raw history is in the feature table
NothingNew == csv_exists /\ fe_exists /\ Datetimes(csv) \subseteq Datetimes(fe_csv)

\* C10: a feature-engineering run that starts when every datetime of the raw
\* history is already in the feature table ends with exit status 0 and does
\* not write the feature table, which stays as it was.
C10_NoNewRowsNoOp ==
    [][(last' = "run_preprocessing" /\ NothingNew) =>
          (fe_exit' = "0" /\ ~fe_wrote' /\ fe_csv' = fe_csv /\ fe_exists' = fe_exists)]_vars

\* a run has ended as a no-op on a raw history the feature table covers
C10_Witness ==
    /\ last = "run_preprocessing"
    /\ NothingNew
    /\ fe_exit = "0"
    /\ ~fe_wrote

\* C11: a feature-engineering run on an existing feature table keeps every
\* row of that table, with every column value as it was, and the rows it
\* transforms are exactly the raw rows whose datetime the table did not hold.
C11_PriorRowsUnchanged ==
    [][(last' = "run_preprocessing" /\ fe_exists) =>
          /\ \A i \in 1..Len(fe_csv) :
                RowsAt(fe_csv', fe_csv[i]["datetime"]) = <<fe_csv[i]>>
          /\ fe_wrote' => Datetimes(new_df') = Datetimes(csv) \ Datetimes(fe_csv)]_vars

\* an incremental run has written: the table holds rows of an earlier run
\* next to the rows this run transformed
C11_Witness ==
    /\ last = "run_preprocessing"
    /\ fe_wrote
    /\ \E i \in 1..Len(fe_csv) : fe_csv[i]["datetime"] \notin Datetimes(new_df)
    /\ Datetimes(new_df) \subseteq Datetimes(fe_csv)

\* the snapshot's last datetime
Watermark == MaxOf(Datetimes(fs_csv))

\* the feature table has no row later than the snapshot's last datetime
NoRowPastWatermark ==
    /\ fe_exists /\ fs_exists
    /\ LET T == Watermark
       IN  \A i \in 1..Len(fe_csv) : fe_csv[i]["datetime"] <= T

\* C12: a feature-selection run that starts when no row of the feature
\* table has a datetime later than the snapshot's last datetime leaves the
\* snapshot's rows, and so its row count, as they were, and ends with exit
\* status 0.
C12_NothingNewerNoOp ==
    [][(last' = "feature_selection" /\ NoRowPastWatermark) =>
          (fs_csv' = fs_csv /\ Len(fs_csv') = Len(fs_csv) /\ fs_exit' = "0")]_vars

\* after an append, a further run has found nothing newer
C12_Witness ==
    /\ last = "feature_selection"
    /\ NoRowPastWatermark
    /\ fs_exit = "0"
    /\ Len(fs_csv) > Len(EarlySeedSnapshot)
    /\ Len(fe_csv) > 0

\* the rows of the snapshot behind its first n rows
RowsBehind(df, n) == SubSeq(df, n + 1, Len(df))

\* C13: every step keeps the rows the snapshot had, in place and with their
\* values, and never lowers its last datetime; after a feature-selection
\* run that ends with exit status 0 the rows behind them are the feature
\* rows later than the last datetime the snapshot had, one for one, with
\* the feature table's values in the projected columns.
C13_AppendOnly ==
    [][/\ SubSeq(fs_csv', 1, Len(fs_csv)) = fs_csv
       /\ (fs_csv # <<>> /\ fs_csv' # fs_csv) => MaxOf(Datetimes(fs_csv')) >= Watermark
       /\ (last' = "feature_selection" /\ fs_exit' = "0") =>
             LET added == RowsBehind(fs_csv', Len(fs_csv))
                 T     == Watermark
                 newer == {i \in 1..Len(fe_csv) : fe_csv[i]["datetime"] > T}
             IN  /\ Len(added) = Cardinality(newer)
                 /\ \A i \in newer :
                       \E k \in 1..Len(added) :
                          \A c \in Range(selected_features) : added[k][c] = fe_csv[i][c]]_vars

\* an append has put the feature table's latest row at the snapshot's end
C13_Witness ==
    /\ last = "feature_selection"
    /\ fs_exit = "0"
    /\ Len(fs_csv) >= Len(EarlySeedSnapshot) + HoursPerDay
    /\ fs_csv[Len(fs_csv)]["datetime"] = fe_csv[Len(fe_csv)]["datetime"]
    /\ fs_csv[Len(fs_csv)]["aqi_us"] = fe_csv[Len(fe_csv)]["aqi_us"]

\* C14: every column of the snapshot's projection is a column of the rows
\* feature engineering produces, and a feature-selection run that finds a
\* feature row later than the snapshot's last datetime ends with exit
\* status 0.
C14_ProjectionOfFeatureColumns ==
    /\ [](fe_wrote => Range(selected_features) \subseteq Columns(new_df))
    /\ [][(last' = "feature_selection" /\ fe_exists /\ fs_exists
              /\ ~NoRowPastWatermark) => fs_exit' = "0"]_vars

\* a training run has fitted candidates and chosen among them
Chosen == best_model_name # 0

\* the fit outcomes as a run over the candidate list in reverse meets them
Reversed(fits) == [m \in Candidates |-> fits[Len(candidate_list) + 1 - m]]

\* C15: the candidate a training run selects was fitted and no fitted
\* candidate has a lower validation RMSE; among candidates of equal RMSE it
\* is the first of the list; and when the fitted candidates' RMSEs differ,
\* a run over the reversed list selects the same candidate.
C15_LowestRmseFirstOnTies ==
    Chosen =>
        LET fits   == models_results
            fitted == {m \in Candidates : fits[m].ok}
            best   == best_model_name
        IN  /\ best \in fitted
            /\ \A o \in fitted : fits[best].rmse <= fits[o].rmse
            /\ \A o \in fitted : fits[o].rmse = fits[best].rmse => best <= o
            /\ (\A m, o \in fitted : m # o => fits[m].rmse # fits[o].rmse) =>
                  BestModel(Fitted(Reversed(fits)), Reversed(fits))
                      = Len(candidate_list) + 1 - best

\* both candidates were fitted to the same RMSE and the first was selected
C15_Witness ==
    /\ Chosen
    /\ \A m \in Candidates : models_results[m].ok
    /\ models_results[1].rmse = models_results[2].rmse
    /\ best_model_name = 1

TrainingScripts == {"predict_next_3days", "predict_next_3_days_mlflow"}

\* the step is a training run that got as far as fitting the candidates
FitsCandidates == last' \in TrainingScripts /\ models_results' # <<>>

Other(m) == Len(candidate_list) + 1 - m

\* C16 (as stated): when one candidate fails, by a raised error or by not
\* converging, and the other is fitted and converges, the other is selected.
C16_FailedCandidateSkipped ==
    [][FitsCandidates =>
          \A m \in Candidates :
             (/\ ~models_results'[m].ok \/ ~models_results'[m].converged
              /\ models_results'[Other(m)].ok
              /\ models_results'[Other(m)].converged)
                => best_model_name' = Other(m)]_vars

\* C16 (amended): when the fit or validation of one candidate raises, the
\* first or the second, and the other's raises nothing, the run goes on, the
\* other is selected and the run is logged to the tracker; a candidate whose
\* fit did not converge and raised nothing is not skipped, it is selected
\* when its RMSE is the lower one.
C16_RaisedErrorSkipsCandidate ==
    [][FitsCandidates =>
          \A m \in Candidates :
             /\ (~models_results'[m].ok /\ models_results'[Other(m)].ok)
                   => (best_model_name' = Other(m) /\ mlflow_runs' = mlflow_runs + 1)
             /\ (/\ models_results'[m].ok /\ models_results'[Other(m)].ok
                 /\ ~models_results'[m].converged
                 /\ models_results'[m].rmse < models_results'[Other(m)].rmse)
                   => best_model_name' = m]_vars

\* the first candidate raised, the second was fitted and selected
C16_Witness ==
    /\ last \in TrainingScripts
    /\ models_results # <<>>
    /\ ~models_results[1].ok
    /\ models_results[2].ok
    /\ best_model_name = 2
    /\ mlflow_runs > 0

\* C17: a training run in which the fit or validation of both candidates
\* raises ends with exit status 1 and leaves the model store, the tracker's
\* runs, both predictions files and the metrics file as they were.
C17_BothFailNothingProduced ==
    [][(FitsCandidates /\ \A m \in Candidates : ~models_results'[m].ok) =>
          (train_exit' = "1" /\ best_model_name' = 0 /\ train_files' = train_files)]_vars

\* a run has ended with both candidates failed and nothing on disk
C17_Witness ==
    /\ last \in TrainingScripts
    /\ models_results # <<>>
    /\ \A m \in Candidates : ~models_results[m].ok
    /\ train_exit = "1"
    /\ model_store = <<>> /\ mlflow_runs = 0
    /\ predictions = <<>> /\ predictions_mlflow = <<>> /\ metrics = <<>>

\* the model in the store is the one this run's final fit gave
SavedByThisRun ==
    /\ model_store' # <<>>
    /\ model_store'[1].params = candidate_list[best_model_name']
    /\ model_store'[1].rmse = models_results'[best_model_name'].rmse
    /\ model_store'[1].features = Range(selected_features) \ {"datetime", "aqi_us"}
    /\ model_store'[1].target = "aqi_us"

\* C18: a training run that ends with exit status 0 has saved its refit
\* model, with its metadata, to the model store.
C18_SuccessMeansSaved ==
    [][(FitsCandidates /\ train_exit' = "0") => SavedByThisRun]_vars

\* the positions of the snapshot's rows inside the 90-day window
WindowPositions ==
    LET start_date == Watermark - WindowDays * HoursPerDay
    IN  {i \in 1..Len(fs_csv) : fs_csv[i]["datetime"] > start_date}

\* C19: the model a training run puts in the store was fitted on every row
\* of the 90-day window, more rows than the training split, with the
\* hyperparameters of the candidate the run selected.
C19_RefitOnWholeWindow ==
    [][(FitsCandidates /\ model_store' # model_store) =>
          /\ model_store'[1].rows = Cardinality(WindowPositions)
          /\ model_store'[1].rows = Len(train_target') + Len(val_target')
          /\ model_store'[1].rows > Len(train_target')
          /\ model_store'[1].params = candidate_list[best_model_name']
          /\ best_model_name' \in Fitted(models_results')]_vars

\* the second candidate won and is in the store, refit on the whole window
C19_Witness ==
    /\ last = "predict_next_3days"
    /\ best_model_name = 2
    /\ model_store # <<>>
    /\ model_store[1].params = best_params2
    /\ model_store[1].rows = Cardinality(WindowPositions)
    /\ Cardinality(WindowPositions) < Len(fs_csv)

\* C20: the training and validation rows of a run are the rows of the
\* 90-day window in ascending datetime order, cut after the first
\* floor(0.8 * n) of its n rows: together they hold every window row once,
\* they share none, and no validation row is earlier than a training row.
C20_ChronologicalSplit ==
    models_results # <<>> =>
        LET n         == Len(train_target) + Len(val_target)
            positions == WindowPositions
            window    == {fs_csv[i]["datetime"] : i \in positions}
        IN  /\ n = Cardinality(positions)
            /\ Len(train_target) = (8 * n) \div 10
            /\ Range(train_target) \cup Range(val_target) = window
            /\ Range(train_target) \cap Range(val_target) = {}
            /\ \A i \in 1..Len(train_target) :
                  \A j \in 1..Len(val_target) : train_target[i] <= val_target[j]
            /\ \A i \in 1..(Len(train_target) - 1) : train_target[i] <= train_target[i + 1]
            /\ \A j \in 1..(Len(val_target) - 1) : val_target[j] <= val_target[j + 1]

\* a snapshot whose rows were not in datetime order has been split, at a
\* row count that 0.8 does not divide evenly
C20_Witness ==
    /\ models_results # <<>>
    /\ ~IsSortedUnique(fs_csv)
    /\ (Len(train_target) + Len(val_target)) % 5 # 0
    /\ Len(val_target) > 0
    /\ Len(train_target) + Len(val_target) < Len(fs_csv)


-----------------------------------------------------------------------------
(* Properties of model serving. *)

\* the hours between 0001-01-01 00:00 and the hour of t
HourIndex(t) == Ordinal(t) * 24 + t.hour

Answered(api) == request.api = api

Succeeded == Answered("forecast") /\ response.status = "success"

\* C21: a successful forecast for last_timestamp L and horizon n has n
\* forecast dates, the i-th the text of L plus i hours, each an hour after
\* the one before; for the client's request (n = 72, L = 2025-07-13
\* 23:00:00) the first is 2025-07-14 00:00:00 and the last 2025-07-16
\* 23:00:00.
C21_DatesFollowLastTimestamp ==
    Succeeded =>
        LET L     == strptime(request.input_data.last_timestamp.text)
            n     == Horizon(request.input_data.steps)
            dates == response.forecast_dates
        IN  /\ Len(dates) = n
            /\ \A i \in 1..n :
                   LET d == strptime(dates[i])
                   IN  /\ d.valid
                       /\ strftime(d) = dates[i]
                       /\ HourIndex(d) = HourIndex(L) + i
                       /\ d.minute = L.minute
                       /\ d.second = L.second
            /\ request.input_data = ClientRequest =>
                   /\ dates[1] = "2025-07-14 00:00:00"
                   /\ dates[n] = "2025-07-16 23:00:00"

\* the client's request has been answered with its 72 dates
C21_Witness ==
    /\ Succeeded
    /\ request.input_data = ClientRequest
    /\ Len(response.forecast_dates) = 72
    /\ response.forecast_dates[1] = "2025-07-14 00:00:00"
    /\ response.forecast_dates[72] = "2025-07-16 23:00:00"


Omitted == ~request.input_data.last_timestamp.given

\* C22: a request for a forecast that gives no last_timestamp is answered
\* with a successful forecast (dated from the wall clock), by forecast and by
\* predict_simple alike.
C22_DefaultsToWallClock ==
    /\ (Answered("forecast") /\ request.input_data.is_dict /\ Omitted)
           => response.status = "success"
    /\ (Answered("predict_simple") /\ request.input_data.is_dict
        /\ request.input_data.steps.kind # "str")
           => response.status = "success"


StartsWith(s, prefix) ==
    Len(s) >= Len(prefix) /\ SubSeq(s, 1, Len(prefix)) = prefix

Structured(r) ==
    /\ DOMAIN r = {"forecast", "forecast_dates", "status"}
    /\ \/ r.status = "success"
       \/ /\ StartsWith(r.status, "error: ")
          /\ r.forecast = <<>>
          /\ r.forecast_dates = <<>>

\* C23: every call of forecast returns a response with the fields
\* forecast, forecast_dates and status, the status "success" or a text
\* that starts with "error: ", both lists empty when it is an error; and
\* whatever the request, the service and its model are afterwards as they
\* were, so the next request is answered.
C23_AlwaysStructuredResponse ==
    /\ [](Answered("forecast") => Structured(response))
    /\ [][(service = "serving" /\ request'.api = "forecast")
              => (service' = "serving" /\ model' = model /\ Structured(response'))]_vars

\* a request was refused with an error and the client's request, sent
\* afterwards or before, was answered with a forecast
C23_Witness ==
    /\ \E a \in answers : StartsWith(a[2].status, "error: ")
    /\ \E a \in answers : a[2].status = "success"
    /\ Succeeded


\* C24: a forecast request whose exog_data has rows, but not as many as
\* the horizon, is never answered with "success"; and no response has a
\* forecast of another length than its forecast_dates.
C24_ExogRowsMatchHorizon ==
    Answered("forecast") =>
        /\ (/\ request.input_data.exog_data.rows > 0
            /\ request.input_data.exog_data.rows # Horizon(request.input_data.steps))
               => response.status # "success"
        /\ Len(response.forecast) = Len(response.forecast_dates)


C26_ServesOnlyWithModel ==
    /\ service = "serving" => (model # <<>> /\ model = model_store)
    /\ request.api # "none" => service = "serving"
    /\ Answered("health") => response.model_loaded = TRUE
    /\ (service # "down" /\ model_store = <<>>) => service = "failed"

\* the health check of a running service has answered
C26_Witness ==
    /\ service = "serving"
    /\ Answered("health")
    /\ response.model_loaded = TRUE


MetricKeys == {"rmse", "mae", "aic", "training_duration_seconds"}

\* C27: when a training run writes metrics.json, a previous file that is not
\* JSON counts as empty and does not stop the run: the file written holds
\* the four metrics of the run and nothing else; of a previous file that is
\* a JSON object every key other than rmse, mae, aic and
\* training_duration_seconds (api_success_rate, api_response_time) is in the
\* file written with the value it had, and the four hold the run's values.
C27_MetricsMergedIntoPrevious ==
    [][(last' = "predict_next_3_days_mlflow" /\ train_exit' = "0")
          => LET garbled  == metrics # <<>> /\ ~metrics[1].parseable
                 previous == IF metrics = <<>> \/ garbled
                             THEN EmptyObject ELSE metrics[1].object
                 written  == metrics'[1].object
             IN  /\ metrics' # <<>>
                 /\ metrics'[1].parseable
                 /\ DOMAIN written = MetricKeys \cup DOMAIN previous
                 /\ \A k \in DOMAIN previous \ MetricKeys : written[k] = previous[k]
                 /\ \A k \in MetricKeys : written[k] = models_results'[best_model_name'].rmse]_vars

\* a run has written its metrics beside the two keys of the ingestion
\* monitoring, over the rmse of an earlier run
C27_Witness ==
    /\ last = "predict_next_3_days_mlflow"
    /\ train_exit = "0"
    /\ metrics # <<>>
    /\ DOMAIN metrics[1].object = MetricKeys \cup {"api_success_rate", "api_response_time"}
    /\ metrics[1].object.api_success_rate = 1
    /\ metrics[1].object.rmse # 99


\* the datetimes of the feature table that the snapshot lacks although it
\* holds a later one
Skipped(features, snapshot) ==
    LET last_datetime == MaxOf(Datetimes(snapshot))
    IN  {d \in Datetimes(features) \ Datetimes(snapshot) : d <= last_datetime}

\* C28: a row of the feature table whose datetime is not after the
\* snapshot's latest and which the snapshot lacks (an hour filled in
\* afterwards) is not added to the snapshot by any run of feature
\* selection, then or later, although feature engineering has put it into
\* the feature table.
C28_BackfilledRowsNeverAppended ==
    [][\A d \in Skipped(fe_csv, fs_csv) \cup Skipped(fe_csv', fs_csv) :
          d \notin Datetimes(fs_csv')]_vars

\* feature engineering has put hour 5 into the feature table and feature
\* selection has since appended later hours to the snapshot without it
C28_Witness ==
    /\ last = "feature_selection"
    /\ fs_exit = "0"
    /\ 5 \in Skipped(fe_csv, fs_csv)
    /\ Watermark > MaxOf(Datetimes(GappedSnapshot))
    /\ Len(fs_csv) > Len(GappedSnapshot)


\* the rows the merge of a run leaves: one for every datetime of the table
\* on disk and of the batch fetched
MergedRows == Cardinality(Datetimes(DropNaDatetime(csv)) \cup Datetimes(merged_df'))

\* C29: an ingestion run whose merge leaves fewer rows than the table on
\* disk has (the table repeats datetimes) raises and leaves the historical
\* CSV exactly as it was; the backup copy, a copy of that table, is all it
\* has written.
C29_ShrinkingMergeRaises ==
    [][(last' = "fetch_daily_data" /\ MergedRows < Len(DropNaDatetime(csv)))
          => /\ ingest_exit' = "raise"
             /\ csv' = csv
             /\ csv_exists' = csv_exists
             /\ backup' = csv]_vars

\* a run has raised on a table that repeats datetimes, and left it so
C29_Witness ==
    /\ last = "fetch_daily_data"
    /\ ingest_exit = "raise"
    /\ csv \in RepeatedTables
    /\ backup = csv
    /\ Datetimes(merged_df) \subseteq Datetimes(csv)


SameFetchAgain ==
    /\ last = "fetch_daily_data"
    /\ ingest_exit = "ok"
    /\ last' = "fetch_daily_data"
    /\ merged_df' = merged_df

=============================================================================
